---- MODULE Spec2Model ----
(***************************************************************************)
(* Service tracker (src/app.py): the report pipeline of the Streamlit app. *)
(* A state is the record store (users, service_logs), the environment of   *)
(* one script run (the wall clock `now`, the process time zone, the signed *)
(* in user) and what the last script run rendered (the resolved range, the *)
(* fetched rows, the flat view and its summaries).  One action is one      *)
(* Streamlit script run of one page.  The Reports pages of the catalog     *)
(* variants (src/app_v2.py, src/app_v3.py) have tables and a report of     *)
(* their own.                                                              *)
(*                                                                         *)
(* Conventions.                                                            *)
(*  - A datetime is a record [date, sec, us, off]: `date` is the proleptic *)
(*    Gregorian ordinal of Python's date.toordinal(), `sec` the second of  *)
(*    the day, `us` the microsecond, `off` the UTC offset in seconds of an *)
(*    aware datetime (`aware`); a naive one has none.  An instant stored   *)
(*    in the database (timestamptz) is an aware datetime with off = 0.     *)
(*  - Money values are the numbers the code handles (floats in major       *)
(*    units), written as integers counting 1/10000 of a major unit, so     *)
(*    that x * (pct / 100.0) is exact for every two-decimal x.  Floating   *)
(*    point rounding error (below 1e-9) is not modelled.                   *)
(***************************************************************************)
EXTENDS Integers, Sequences, FiniteSets, TLC

VARIABLES
    now,            \* the instant of the script run (UTC)
    proc_tz,        \* time zone of the server process ("UTC" or "US/Central")
    auth_user,      \* st.session_state["auth_user"]
    users,          \* table users: id -> record
    service_logs,   \* table service_logs: set of records
    tab,            \* the page the last script run rendered
    period,         \* Reports: the quick range selected
    user_filter,    \* Reports: the user selected
    start,          \* the resolved range, before conversion to UTC
    end,
    start_utc,      \* the resolved range, as passed to the query
    end_utc,
    rows,           \* what fetch_service_logs returned
    view,           \* "none", "nodata" (st.info) or "table" (st.dataframe)
    df,             \* the flat view displayed
    sums,           \* Reports: Totals per User & Payment Type
    user_summary,   \* Reports: Overall Totals per User
    raw_services,   \* Edit Services: the logs offered to the picker
    grp_user,       \* Reports: Services Completed per User
    by_type,        \* My Daily Tracker: Totals by Payment Type
    totals,         \* My Daily Tracker: the grand totals
    csv,            \* Reports: the document of "Download CSV"
    submitted,      \* the form submitted in the last script run
    services,       \* catalog schema: table services, id -> record
    catalog_logs,   \* catalog schema: table service_logs
    catalog_report, \* catalog schema: what the last Reports run rendered
    session_state,  \* per application: the keys of st.session_state that
                    \* Reports sets, key -> value
    cookies,        \* app_v2: the cookie user_id of the browser
    program         \* the program the browser session is of: "app",
                    \* "app_v2" or "app_v3"

vars == <<now, proc_tz, auth_user, users, service_logs, tab, period,
          user_filter, start, end, start_utc, end_utc, rows, view, df,
          sums, user_summary, raw_services, grp_user, by_type, totals, csv,
          submitted, services, catalog_logs, catalog_report, session_state,
          cookies, program>>

None == "None"

-----------------------------------------------------------------------------
(* Calendar: Python's datetime.date arithmetic.                            *)

SecondsPerDay == 24 * 60 * 60
Hours(h) == h * 60 * 60
LastMicrosecond == 1000 * 1000 - 1

Years == 2023 .. 2025
Months == 1 .. 12

IsLeap(y) == (y % 4 = 0) /\ ((y % 100 # 0) \/ (y % 400 = 0))

DaysBeforeYear(y) ==
    LET p == y - 1 IN p * 365 + (p \div 4) - (p \div 100) + (p \div 400)

DaysInMonth(y, m) ==
    IF m = 2 THEN (IF IsLeap(y) THEN 29 ELSE 28)
    ELSE IF m \in {4, 6, 9, 11} THEN 30 ELSE 31

\* days of a common year before each month
CommonDaysBeforeMonth == <<0, 31, 59, 90, 120, 151, 181, 212, 243, 273, 304, 334>>

DaysBeforeMonth(y, m) ==
    CommonDaysBeforeMonth[m] + (IF m > 2 /\ IsLeap(y) THEN 1 ELSE 0)

\* date(y, m, d).toordinal()
Ymd2Ord(y, m, d) == DaysBeforeYear(y) + DaysBeforeMonth(y, m) + d

YearOf(n) ==
    CHOOSE y \in Years : DaysBeforeYear(y) < n /\ n <= DaysBeforeYear(y + 1)

MonthOf(n) ==
    LET y == YearOf(n)
        doy == n - DaysBeforeYear(y)
    IN  CHOOSE m \in Months :
            /\ DaysBeforeMonth(y, m) < doy
            /\ doy <= DaysBeforeMonth(y, m) + DaysInMonth(y, m)

DayOf(n) ==
    LET y == YearOf(n) IN n - DaysBeforeYear(y) - DaysBeforeMonth(y, MonthOf(n))

\* date.weekday(): Monday is 0, Sunday is 6
Weekday(n) == (n + 6) % 7

-----------------------------------------------------------------------------
(* Datetimes.                                                              *)

DT(d, s, u, o) == [date |-> d, sec |-> s, us |-> u, off |-> o, aware |-> TRUE]

\* a naive datetime
Naive(d, s, u) == [date |-> d, sec |-> s, us |-> u, off |-> 0, aware |-> FALSE]

\* datetime + timedelta(seconds = k): wall clock arithmetic, tzinfo kept
AddSeconds(dt, k) ==
    LET t == dt.sec + k IN
    [dt EXCEPT !.date = dt.date + (t \div SecondsPerDay),
               !.sec = t % SecondsPerDay]

\* datetime + timedelta(days = k)
AddDays(dt, k) == [dt EXCEPT !.date = dt.date + k]

\* order of two datetimes with the same offset
Before(a, b) ==
    \/ a.date < b.date
    \/ a.date = b.date /\ a.sec < b.sec
    \/ a.date = b.date /\ a.sec = b.sec /\ a.us < b.us

NotAfter(a, b) == ~ Before(b, a)

\* an instant: the UTC datetime of an aware datetime
ToUtc(dt) == [AddSeconds(dt, 0 - dt.off) EXCEPT !.off = 0]

-----------------------------------------------------------------------------
(* pytz.timezone("US/Central"): CST (UTC-6), and CDT (UTC-5) from 02:00    *)
(* CST of the second Sunday of March to 02:00 CDT of the first Sunday of   *)
(* November.                                                               *)

CST == 0 - Hours(6)
CDT == 0 - Hours(5)

\* the k-th Sunday (k >= 1) of month m of year y
NthSunday(y, m, k) ==
    LET first == Ymd2Ord(y, m, 1)
        toSun == (6 - Weekday(first)) % 7
    IN  first + toSun + 7 * (k - 1)

DstStartUtc(y) == DT(NthSunday(y, 3, 2), Hours(8), 0, 0)
DstEndUtc(y) == DT(NthSunday(y, 11, 1), Hours(7), 0, 0)

\* the offset of US/Central at the instant u (off = 0)
CentralOffsetAt(u) ==
    LET y == YearOf(u.date) IN
    IF NotAfter(DstStartUtc(y), u) /\ Before(u, DstEndUtc(y)) THEN CDT ELSE CST

\* u.astimezone(central_tz), datetime.now(central_tz): the wall clock of
\* the instant u in US/Central, carrying the offset in force at u
ToCentral(u) ==
    LET o == CentralOffsetAt(u) IN [AddSeconds(u, o) EXCEPT !.off = o]

\* central_tz.localize(naive): the naive wall clock read in US/Central
\* (an ambiguous or missing wall clock is read as standard time)
Localize(dt) ==
    LET asCDT == [dt EXCEPT !.off = CDT, !.aware = TRUE]
        asCST == [dt EXCEPT !.off = CST, !.aware = TRUE]
    IN  IF CentralOffsetAt(ToUtc(asCST)) = CST THEN asCST
        ELSE IF CentralOffsetAt(ToUtc(asCDT)) = CDT THEN asCDT
        ELSE asCST

-----------------------------------------------------------------------------
(* datetime.astimezone(UTC_TZ).  An aware datetime is shifted by the       *)
(* offset it carries.  A naive datetime is read in the time zone of the    *)
(* server process (Python's rule for naive datetimes).                     *)

astimezone_utc(dt) ==
    IF dt.aware THEN ToUtc(dt)
    ELSE IF proc_tz = "UTC" THEN [dt EXCEPT !.aware = TRUE]
    ELSE ToUtc(Localize(dt))

\* datetime.datetime.combine(date, time), a time being [sec, us]
combine(d, t) == Naive(d, t.sec, t.us)

\* datetime.time(h, m, s)
time_of(h, m, s) == [sec |-> Hours(h) + 60 * m + s, us |-> 0]

\* dt.replace(hour=0, minute=0, second=0, microsecond=0)
StartOfDay(dt) == [dt EXCEPT !.sec = 0, !.us = 0]

\* dt.replace(hour=23, minute=59, second=59, microsecond=999999)
EndOfDay(dt) == [dt EXCEPT !.sec = SecondsPerDay - 1, !.us = LastMicrosecond]

\* dt.replace(day=1)
FirstOfMonth(dt) == [dt EXCEPT !.date = dt.date - (DayOf(dt.date) - 1)]

\* strftime("%Y-%m-%d %I:%M:%S %p"): the string, as the tuple of its
\* zero-padded fields <<Y, m, d, I, M, S, p>>, p being 0 for "AM" and 1
\* for "PM"; strings compare as these tuples compare, field by field
strftime(dt) ==
    LET h == dt.sec \div Hours(1)
    IN  << YearOf(dt.date), MonthOf(dt.date), DayOf(dt.date),
           IF h % 12 = 0 THEN 12 ELSE h % 12,
           (dt.sec \div 60) % 60,
           dt.sec % 60,
           IF h < 12 THEN 0 ELSE 1 >>

\* a < b for two strings of the same format
RECURSIVE StrLess(_, _)
StrLess(a, b) ==
    /\ a # << >>
    /\ \/ Head(a) < Head(b)
       \/ Head(a) = Head(b) /\ StrLess(Tail(a), Tail(b))

-----------------------------------------------------------------------------
(* return_start_and_end: the date and time pickers.                        *)

\* the two naive datetimes built from the picks
return_start_and_end(start_date, start_time, end_date, end_time) ==
    << combine(start_date, start_time), combine(end_date, end_time) >>

\* the values the pickers show when untouched
DefaultStartDate == AddDays(ToCentral(now), 0 - 7).date
DefaultEndDate == ToCentral(now).date
DefaultStartTime == time_of(0, 0, 0)
DefaultEndTime == time_of(23, 59, 59)

-----------------------------------------------------------------------------
(* fetch_service_logs.                                                     *)

\* x * (pct / 100.0)
PercentOf(x, pct) == (x * pct) \div 100

\* sb.table("users").select("id, username").eq("is_active", True)
ActiveUsers == {u \in DOMAIN users : users[u].is_active}

\* next(u["id"] for u in all_users if u["username"] == user_filter)
UserIdOf(username, all_users) ==
    CHOOSE u \in all_users : users[u].username = username

\* the query with the end of the range excluded
Query_HalfOpen(user_id, start_date, end_date, uf, all_users) ==
    { r \in service_logs :
        /\ NotAfter(start_date, r.served_at)
        /\ Before(r.served_at, end_date)
        /\ IF uf # None /\ all_users # {} /\ uf # "All"
           THEN r.user_id = UserIdOf(uf, all_users)
           ELSE IF user_id # None THEN r.user_id = user_id
           ELSE TRUE }

\* the query without its user restriction
Query_AnyUser(user_id, start_date, end_date, uf, all_users) ==
    { r \in service_logs :
        /\ NotAfter(start_date, r.served_at)
        /\ NotAfter(r.served_at, end_date) }

\* the filters of the query: served_at >= start_date, served_at <= end_date
\* and user_id
Query(user_id, start_date, end_date, uf, all_users) ==
    { r \in service_logs :
        /\ NotAfter(start_date, r.served_at)
        /\ NotAfter(r.served_at, end_date)
        /\ IF uf # None /\ all_users # {} /\ uf # "All"
           THEN r.user_id = UserIdOf(uf, all_users)
           ELSE IF user_id # None THEN r.user_id = user_id
           ELSE TRUE }

\* .order("served_at"): the selected logs in ascending order of served_at;
\* the order of logs with the same served_at is the store's choice
OrderBy(S) ==
    LET n == Cardinality(S) IN
    { q \in [1 .. n -> S] :
        /\ \A i, j \in 1 .. n : i # j => q[i] # q[j]
        /\ \A i \in 1 .. n - 1 : NotAfter(q[i].served_at, q[i + 1].served_at) }

\* the row computed without the quantity
ComputedRow_NoQty(r) ==
    LET user_percent == users[r.user_id].service_percentage
    IN  [ DateTime |-> strftime(ToCentral(r.served_at)),
          User |-> users[r.user_id].username,
          Qty |-> r.qty,
          UserPercent |-> user_percent,
          ServiceAmount |-> r.amount_cents,
          TotalServiceAmount |-> r.amount_cents,
          Tip |-> r.tip_cents,
          PaymentType |-> r.payment_type,
          Total |-> PercentOf(r.amount_cents, user_percent) + r.tip_cents,
          src |-> r.id ]

\* the percentages of the users when the logs of the first state were made
FirstPercent == [u1 |-> 50, u2 |-> 100]

\* the row computed with the percentage in force when the log was made
ComputedRow_FirstPercent(r) ==
    LET amount == r.amount_cents * r.qty
        user_percent == FirstPercent[r.user_id]
    IN  [ DateTime |-> strftime(ToCentral(r.served_at)),
          User |-> users[r.user_id].username,
          Qty |-> r.qty,
          UserPercent |-> user_percent,
          ServiceAmount |-> r.amount_cents,
          TotalServiceAmount |-> amount,
          Tip |-> r.tip_cents,
          PaymentType |-> r.payment_type,
          Total |-> PercentOf(amount, user_percent) + r.tip_cents,
          src |-> r.id ]

\* one computed row; `src` is the id of the log it was computed from (not a
\* column: it ties the row to its log for the properties below)
ComputedRow(r) ==
    LET amount == r.amount_cents * r.qty
        user_percent == users[r.user_id].service_percentage
        service_earning == PercentOf(amount, user_percent)
    IN  [ DateTime |-> strftime(ToCentral(r.served_at)),
          User |-> users[r.user_id].username,
          Qty |-> r.qty,
          UserPercent |-> user_percent,
          ServiceAmount |-> r.amount_cents,
          TotalServiceAmount |-> amount,
          Tip |-> r.tip_cents,
          PaymentType |-> r.payment_type,
          Total |-> service_earning + r.tip_cents,
          src |-> r.id ]

\* the rows returned for the query result `data`
fetch_service_logs(data) == [i \in 1 .. Len(data) |-> ComputedRow(data[i])]

-----------------------------------------------------------------------------
(* pandas.                                                                 *)

\* insertion of row x below every row whose key is not smaller
RECURSIVE InsertDesc(_, _)
InsertDesc(s, x) ==
    IF s = << >> THEN << x >>
    ELSE IF StrLess(Head(s).DateTime, x.DateTime) THEN << x >> \o s
    ELSE << Head(s) >> \o InsertDesc(Tail(s), x)

\* pd.DataFrame(rows).sort_values("Date & Time", ascending=False): rows
\* with equal keys keep their order
RECURSIVE sort_values(_)
sort_values(s) ==
    IF s = << >> THEN << >>
    ELSE InsertDesc(sort_values(SubSeq(s, 1, Len(s) - 1)), s[Len(s)])

\* column.sum() over the rows of d whose index is in I
RECURSIVE SumCol(_, _, _)
SumCol(d, I, col) ==
    IF I = {} THEN 0
    ELSE LET i == CHOOSE k \in I : TRUE
         IN  d[i][col] + SumCol(d, I \ {i}, col)

\* df.groupby(["User", "Payment Type", "User Percent"])
\*   [["Service Amount", "Tip", "Total"]].sum(), renamed; groupby drops the
\* rows that have a null key
groupby_sums(d) ==
    LET keyed == {i \in DOMAIN d : d[i].PaymentType # None}
        Key(i) == << d[i].User, d[i].PaymentType, d[i].UserPercent >>
        Grp(k) == {i \in keyed : Key(i) = k}
    IN  { [ User |-> k[1], PaymentType |-> k[2], UserPercent |-> k[3],
            TotalServiceAmount |-> SumCol(d, Grp(k), "ServiceAmount"),
            TotalTip |-> SumCol(d, Grp(k), "Tip"),
            TotalWithPercentTip |-> SumCol(d, Grp(k), "Total") ]
          : k \in {Key(i) : i \in keyed} }

\* df.groupby(["User", "User Percent"]).agg(...), then
\* total_service * (User Percent / 100.0) + total_tip
groupby_user_summary(d) ==
    LET Key(i) == << d[i].User, d[i].UserPercent >>
        Grp(k) == {i \in DOMAIN d : Key(i) = k}
    IN  { [ User |-> k[1], Percentage |-> k[2],
            TotalServices |-> SumCol(d, Grp(k), "Qty"),
            TotalTip |-> SumCol(d, Grp(k), "Tip"),
            TotalServiceAmount |-> SumCol(d, Grp(k), "ServiceAmount"),
            TotalWithPercentTip |->
                PercentOf(SumCol(d, Grp(k), "ServiceAmount"), k[2])
                + SumCol(d, Grp(k), "Tip") ]
          : k \in {Key(i) : i \in DOMAIN d} }

\* the number of rows of each user
groupby_qty_Count(d) ==
    { [User |-> u,
       ServicesCompleted |-> Cardinality({i \in DOMAIN d : d[i].User = u})]
      : u \in {d[i].User : i \in DOMAIN d} }

\* df.groupby("User")[["Qty"]].sum(), Qty renamed "Services Completed"
groupby_qty(d) ==
    LET Grp(u) == {i \in DOMAIN d : d[i].User = u}
    IN  { [User |-> u, ServicesCompleted |-> SumCol(d, Grp(u), "Qty")]
          : u \in {d[i].User : i \in DOMAIN d} }

\* df.groupby(["Payment Type", "User Percent"])[["Total"]].sum(); groupby
\* drops the rows that have a null key
groupby_by_type(d) ==
    LET keyed == {i \in DOMAIN d : d[i].PaymentType # None}
        Key(i) == << d[i].PaymentType, d[i].UserPercent >>
        Grp(k) == {i \in keyed : Key(i) = k}
    IN  { [PaymentType |-> k[1], UserPercent |-> k[2],
           Total |-> SumCol(d, Grp(k), "Total")]
          : k \in {Key(i) : i \in keyed} }

\* df[["Total Service Amount", "Tip", "Total"]].sum().to_dict()
grand_totals(d) ==
    [ TotalServiceAmount |-> SumCol(d, DOMAIN d, "TotalServiceAmount"),
      Tip |-> SumCol(d, DOMAIN d, "Tip"),
      Total |-> SumCol(d, DOMAIN d, "Total") ]

-----------------------------------------------------------------------------
(* The export: DataFrame.to_csv(index=False).  A numeral is a record of    *)
(* its sign, the digits of its integer part and the digits after the point *)
(* (none for an integer column).                                           *)

Abs(x) == IF x < 0 THEN 0 - x ELSE x

\* the decimal digits of the natural number n
RECURSIVE Digits(_)
Digits(n) == IF n < 10 THEN << n >> ELSE Append(Digits(n \div 10), n % 10)

\* digits without their trailing zeros, one digit at least
RECURSIVE StripZeros(_)
StripZeros(ds) ==
    IF Len(ds) > 1 /\ ds[Len(ds)] = 0
    THEN StripZeros(SubSeq(ds, 1, Len(ds) - 1))
    ELSE ds

\* an int64 column: str(n)
int_repr(n) == [neg |-> n < 0, int |-> Digits(Abs(n)), frac |-> << >>]

\* a float written with no digit after the point
float_repr_Truncated(x) ==
    [neg |-> x < 0, int |-> Digits(Abs(x) \div 10000), frac |-> << 0 >>]

\* a float64 column: repr(x), the shortest numeral that reads back as x
float_repr(x) ==
    LET f == Abs(x) % 10000
    IN  [neg |-> x < 0,
         int |-> Digits(Abs(x) \div 10000),
         frac |-> StripZeros(<< f \div 1000, (f \div 100) % 10,
                                (f \div 10) % 10, f % 10 >>)]

\* the natural number of the digits ds
RECURSIVE DigitsValue(_)
DigitsValue(ds) ==
    IF ds = << >> THEN 0
    ELSE 10 * DigitsValue(SubSeq(ds, 1, Len(ds) - 1)) + ds[Len(ds)]

\* the digits ds followed by zeros, up to n digits
RECURSIVE PadZeros(_, _)
PadZeros(ds, n) == IF Len(ds) >= n THEN ds ELSE PadZeros(Append(ds, 0), n)

\* a reader of the document: the integer a numeral stands for
parse_int(t) == (IF t.neg THEN 0 - 1 ELSE 1) * DigitsValue(t.int)

\* a reader of the document: the number a numeral stands for
parse_float(t) ==
    (IF t.neg THEN 0 - 1 ELSE 1)
      * (DigitsValue(t.int) * 10000 + DigitsValue(PadZeros(t.frac, 4)))

\* the header: the keys of a row, in the order of the dict
Columns ==
    << "Date & Time", "User", "Qty", "User Percent", "Service Amount",
       "Total Service Amount", "Tip", "Payment Type", "Total" >>

\* one record of the document; a missing value is an empty field
csv_record(row) ==
    << row.DateTime, row.User, int_repr(row.Qty), int_repr(row.UserPercent),
       float_repr(row.ServiceAmount), float_repr(row.TotalServiceAmount),
       float_repr(row.Tip),
       IF row.PaymentType = None THEN "" ELSE row.PaymentType,
       float_repr(row.Total) >>

\* the document with its records in the reverse order
to_csv_Reversed(d) ==
    << Columns >> \o [i \in 1 .. Len(d) |-> csv_record(d[Len(d) + 1 - i])]

\* df.to_csv(index=False): the header, then one record per row of d
to_csv(d) == << Columns >> \o [i \in 1 .. Len(d) |-> csv_record(d[i])]

-----------------------------------------------------------------------------
(* Reports: the quick ranges.                                              *)

\* now_central.replace(hour=0, minute=0, second=0, microsecond=0)
today == StartOfDay(ToCentral(now))

\* "This week": start and end before the end-of-day adjustment
ThisWeek ==
    LET wd == Weekday(today.date)
        s == AddDays(today, 0 - (IF wd < 6 THEN wd + 1 ELSE 0))
    IN  << s, AddDays(s, 6) >>

\* "Last week"
LastWeek ==
    LET wd == Weekday(today.date)
        e == AddDays(today, 0 - (IF wd < 6 THEN wd + 2 ELSE 1))
    IN  << AddDays(e, 0 - 6), e >>

\* "This month"
ThisMonth == << FirstOfMonth(today), AddDays(today, 1) >>

\* "Last month"
LastMonth ==
    LET first_this == FirstOfMonth(today)
        last_month_end == AddDays(first_this, 0 - 1)
    IN  << FirstOfMonth(last_month_end), last_month_end >>

QuickPeriods == {"This week", "Last week", "This month", "Last month"}

\* the quick range p, its end moved to the end of its day
QuickRange(p) ==
    LET r == CASE p = "This week" -> ThisWeek
               [] p = "Last week" -> LastWeek
               [] p = "This month" -> ThisMonth
               [] p = "Last month" -> LastMonth
    IN  << r[1], EndOfDay(r[2]) >>

\* the picks of the four pickers of return_start_and_end
Picks(sd, st, ed, et) ==
    [start_date |-> sd, start_time |-> st, end_date |-> ed, end_time |-> et]

DefaultPicks ==
    Picks(DefaultStartDate, DefaultStartTime, DefaultEndDate, DefaultEndTime)

PickedRange(k) ==
    return_start_and_end(k.start_date, k.start_time, k.end_date, k.end_time)

-----------------------------------------------------------------------------
(* The pages.                                                              *)

\* the optional date and time of a service: not picked, or date d and time t
NotPicked == [picked |-> FALSE, date |-> 0, time |-> [sec |-> 0, us |-> 0]]
Picked(d, t) == [picked |-> TRUE, date |-> d, time |-> t]

\* a text input that was left as it is, and no form submitted
NoText == [kind |-> "blank", value |-> 0]
NoForm == [button |-> None, amount |-> NoText, tip |-> NoText,
           served |-> NotPicked, errors |-> {}, saved |-> FALSE]

\* totals not computed
NoTotals == [TotalServiceAmount |-> 0, Tip |-> 0, Total |-> 0]

\* the variables of the catalog schema
catalog_vars == <<services, catalog_logs, catalog_report, cookies>>

\* the catalog schema with nothing in it and nothing rendered
NoCatalogTotals == [ServiceAmount |-> 0, Tip |-> 0, Total |-> 0]
NoCatalogReport ==
    [view |-> "none", df |-> << >>, grp_user |-> {}, sums |-> {},
     totals |-> NoCatalogTotals, app |-> None, page |-> None,
     include_deactivated |-> None, user_filter |-> None,
     svc_filter |-> None, range |-> << 0, 0 >>]
NoCatalog ==
    /\ services = {}
    /\ catalog_logs = {}
    /\ catalog_report = NoCatalogReport
    /\ cookies = None

\* bcrypt_hasher.hash(password) and bcrypt_hasher.verify(password, hash):
\* the hash is not the password, and only the password hashed verifies
bcrypt_hash(password) == [bcrypt |-> password]
bcrypt_verify(password, password_hash) == password_hash = bcrypt_hash(password)

\* no signed in user
NoUser == [id |-> None, username |-> None, role |-> None]

\* every signed in user taken for an administrator
is_admin_SignedIn == auth_user # NoUser

\* is_admin = user["role"] == "admin", for the user of the session
is_admin == auth_user # NoUser /\ auth_user.role = "admin"

\* the options of the "User" select box
UserOptions == {"All"} \cup {users[u].username : u \in ActiveUsers}

\* a table whose totals are all zero taken for no data
Rendered_ZeroIsEmpty(rs) ==
    IF \A i \in DOMAIN rs : rs[i].Total = 0 THEN "nodata" ELSE "table"

\* `if not rows`: the "no data" message, or else the table
Rendered(rs) == IF rs = << >> THEN "nodata" ELSE "table"

\* a run that empties the table of logs
ReadOnly_Purging == users' = users /\ service_logs' = {}

\* a run that sends select queries only: the tables are left as they are
ReadOnly == UNCHANGED <<users, service_logs>>

\* st.session_state with no key of Reports in it
NoKeys == [key \in {} |-> 0]

\* st.session_state.key = v
SetKey(s, key, v) ==
    [x \in DOMAIN s \cup {key} |-> IF x = key THEN v ELSE s[x]]

\* `if key not in st.session_state: st.session_state.key = v`
SetDefault(s, key, v) == IF key \in DOMAIN s THEN s ELSE SetKey(s, key, v)

\* the session state a script run of Reports leaves, "Run report" pressed
\* or not: the defaults, the reset of the flag when active_tab_index is
\* not 3, active_tab_index = 3, and the flag set by the button
ReportsSession(s, pressed) ==
    LET s1 == SetDefault(s, "active_tab_index", 3)
        s2 == SetDefault(s1, "run_report", FALSE)
        s3 == IF s2["active_tab_index"] # 3
              THEN SetKey(s2, "run_report", FALSE) ELSE s2
        s4 == SetKey(s3, "active_tab_index", 3)
    IN  IF pressed THEN SetKey(s4, "run_report", TRUE) ELSE s4

\* Reports, a press of "Run report" with quick range p (the picks k count
\* for "Custom" only) and user uf
Reports(p, uf, k) ==
    /\ is_admin
    /\ uf \in UserOptions
    /\ LET range == IF p # "Custom" THEN QuickRange(p) ELSE PickedRange(k)
           s_utc == astimezone_utc(range[1])
           e_utc == astimezone_utc(range[2])
       IN  /\ start' = range[1]
           /\ end' = range[2]
           /\ start_utc' = s_utc
           /\ end_utc' = e_utc
           /\ \E data \in OrderBy(Query(None, s_utc, e_utc, uf, ActiveUsers)) :
                 rows' = fetch_service_logs(data)
    /\ view' = Rendered(rows')
    /\ df' = sort_values(rows')
    /\ sums' = groupby_sums(df')
    /\ grp_user' = groupby_qty(df')
    /\ user_summary' = groupby_user_summary(df')
    /\ csv' = IF rows' = << >> THEN << >> ELSE to_csv(df')
    /\ by_type' = {}
    /\ totals' = NoTotals
    /\ tab' = "Reports"
    /\ period' = p
    /\ user_filter' = uf
    /\ raw_services' = << >>
    /\ submitted' = NoForm
    /\ session_state' =
          [session_state EXCEPT !["app"] = ReportsSession(@, TRUE)]
    /\ ReadOnly
    /\ UNCHANGED <<program, now, proc_tz, auth_user>>
    /\ UNCHANGED catalog_vars

\* the page My Daily Tracker rendered for the session user `user`, with
\* the picks k
TrackerPage(user, k) ==
    /\ LET range == PickedRange(k)
           s_utc == astimezone_utc(range[1])
           e_utc == astimezone_utc(range[2])
       IN  /\ start' = range[1]
           /\ end' = range[2]
           /\ start_utc' = s_utc
           /\ end_utc' = e_utc
           /\ \E data \in OrderBy(Query(user.id, s_utc, e_utc, None, {})) :
                 rows' = fetch_service_logs(data)
    /\ view' = Rendered(rows')
    /\ df' = sort_values(rows')
    /\ by_type' = groupby_by_type(df')
    /\ totals' = grand_totals(df')
    /\ sums' = {}
    /\ grp_user' = {}
    /\ user_summary' = {}
    /\ csv' = << >>
    /\ tab' = "My Daily Tracker"
    /\ period' = None
    /\ user_filter' = None
    /\ raw_services' = << >>
    /\ submitted' = NoForm
    /\ UNCHANGED session_state
    /\ ReadOnly
    /\ UNCHANGED <<program, now, proc_tz>>
    /\ UNCHANGED catalog_vars

\* My Daily Tracker, with the picks k
MyDailyTracker(k) ==
    /\ auth_user # NoUser
    /\ TrackerPage(auth_user, k)
    /\ UNCHANGED auth_user

\* Edit Services, with user sel and the picks k: the logs of the picker
EditServices(sel, k) ==
    /\ is_admin
    /\ sel \in UserOptions
    /\ LET range == PickedRange(k)
           s_utc == astimezone_utc(range[1])
           e_utc == astimezone_utc(range[2])
       IN  /\ start' = range[1]
           /\ end' = range[2]
           /\ start_utc' = s_utc
           /\ end_utc' = e_utc
           /\ raw_services' \in OrderBy(Query(None, s_utc, e_utc, sel, ActiveUsers))
    /\ rows' = << >>
    /\ view' = "none"
    /\ df' = << >>
    /\ sums' = {}
    /\ grp_user' = {}
    /\ user_summary' = {}
    /\ by_type' = {}
    /\ totals' = NoTotals
    /\ csv' = << >>
    /\ tab' = "Edit Services"
    /\ period' = None
    /\ user_filter' = sel
    /\ submitted' = NoForm
    /\ UNCHANGED <<program, now, proc_tz, auth_user, users, service_logs,
                   session_state>>
    /\ UNCHANGED catalog_vars

-----------------------------------------------------------------------------
(* The states and inputs explored.                                         *)

MaxLogs == 2          \* logs in the store

\* an instant, from its UTC calendar fields
Instant(y, m, d, hh, mm, ss, u) == DT(Ymd2Ord(y, m, d), Hours(hh) + 60 * mm + ss, u, 0)

\* a money value of the code: units.hundredths
Money(units, hundredths) == (units * 100 + hundredths) * 100

UserIds == {"u1", "u2"}
PercentSet == {0, 50, 100}
PaymentTypes == {"Credit", "Cash", None}

UsersWith(p1, p2) ==
    [u \in UserIds |->
        IF u = "u1"
        THEN [id |-> "u1", username |-> "alice", role |-> "admin",
              is_active |-> TRUE, service_percentage |-> p1,
              password_hash |-> bcrypt_hash("alice-pw")]
        ELSE [id |-> "u2", username |-> "bob", role |-> "user",
              is_active |-> TRUE, service_percentage |-> p2,
              password_hash |-> bcrypt_hash("bob-pw")]]

\* the session of user u after login
SessionOf(u) == [id |-> users[u].id, username |-> users[u].username,
                 role |-> users[u].role]

\* the stores of at most n logs with fields drawn from the given tuples,
\* money being a tuple of [qty, amount_cents, tip_cents].  Logs are numbered
\* in the order of their field values: stores that differ only in the ids
\* of their logs are the same store to every page.
Ledgers(n, uids, times, money, ptypes) ==
    LET N == Len(uids) * Len(times) * Len(money) * Len(ptypes)
        Log(i, c) ==
            [id |-> i,
             user_id |-> uids[(c % Len(uids)) + 1],
             served_at |-> times[((c \div Len(uids)) % Len(times)) + 1],
             qty |-> money[((c \div (Len(uids) * Len(times)))
                              % Len(money)) + 1].qty,
             amount_cents |-> money[((c \div (Len(uids) * Len(times)))
                              % Len(money)) + 1].amount_cents,
             tip_cents |-> money[((c \div (Len(uids) * Len(times)))
                              % Len(money)) + 1].tip_cents,
             payment_type |->
                 ptypes[(c \div (Len(uids) * Len(times) * Len(money))) + 1]]
    IN  UNION { { {Log(i, f[i]) : i \in 1 .. k} :
                    f \in {g \in [1 .. k -> 0 .. N - 1] :
                             \A i \in 1 .. k - 1 : g[i] <= g[i + 1]} }
                : k \in 0 .. n }

\* Wednesday 2024-03-06 12:00 CST
NowWednesday == Instant(2024, 3, 6, 18, 0, 0, 0)

\* Monday 2024-03-04 10:00 AM and 1:00 PM CST
MondayMorning == Instant(2024, 3, 4, 16, 0, 0, 0)
MondayAfternoon == Instant(2024, 3, 4, 19, 0, 0, 0)
\* Sunday 2024-03-03 00:00:00 CST and Saturday 2024-03-09 23:59:59.999999 CST
WeekStart == Instant(2024, 3, 3, 6, 0, 0, 0)
WeekEnd == Instant(2024, 3, 10, 5, 59, 59, LastMicrosecond)

\* no range resolved yet
Unset == Naive(0, 0, 0)

\* nothing rendered yet
NothingRendered ==
    /\ tab = None
    /\ period = None
    /\ user_filter = None
    /\ start = Unset
    /\ end = Unset
    /\ start_utc = Unset
    /\ end_utc = Unset
    /\ rows = << >>
    /\ view = "none"
    /\ df = << >>
    /\ sums = {}
    /\ user_summary = {}
    /\ raw_services = << >>
    /\ grp_user = {}
    /\ by_type = {}
    /\ totals = NoTotals
    /\ csv = << >>
    /\ submitted = NoForm
    /\ session_state = [a \in {"app", "app_v2", "app_v3"} |-> NoKeys]

\* nothing rendered yet in a session of app.py
Blank == NothingRendered /\ program = "app"

\* picks with the end before the start
ReversedPicks ==
    Picks(DefaultEndDate, DefaultStartTime, DefaultStartDate, DefaultEndTime)

(* Spec: stores that differ in owner, quantity, amount, tip and payment    *)
(* type, reported by an admin or a plain user.                             *)

CalcMoney ==
    << [qty |-> 1, amount_cents |-> Money(40, 0), tip_cents |-> Money(5, 0)],
       [qty |-> 2, amount_cents |-> Money(20, 0), tip_cents |-> Money(2, 0)],
       [qty |-> 1, amount_cents |-> 0, tip_cents |-> 0] >>

Init ==
    /\ now = NowWednesday
    /\ proc_tz = "UTC"
    /\ \E p \in PercentSet : users = UsersWith(p, 100 - p)
    /\ auth_user = SessionOf("u1")
    /\ service_logs \in Ledgers(MaxLogs, <<"u1", "u2">>, <<MondayMorning>>,
                                CalcMoney, <<"Credit", "Cash">>)
    /\ Blank
    /\ NoCatalog

Next ==
    \/ \E uf \in UserOptions : Reports("This week", uf, DefaultPicks)
    \/ Reports("Custom", "All", ReversedPicks)
    \/ MyDailyTracker(DefaultPicks)

Spec == Init /\ [][Next]_vars

(* SpecTime: stores that differ in the instants of their logs, reported    *)
(* over this week and over picked ranges whose ends are instants of logs.  *)

Monday == Ymd2Ord(2024, 3, 4)

\* picks on Monday: from 10:00 to 13:00, or from 16:00 to 19:00
MondayPicks ==
    { Picks(Monday, time_of(h, 0, 0), Monday, time_of(h + 3, 0, 0)) :
        h \in {10, 16} }

InitTime ==
    /\ now = NowWednesday
    /\ proc_tz \in {"UTC", "US/Central"}
    /\ users = UsersWith(50, 100)
    /\ auth_user = SessionOf("u1")
    /\ service_logs \in
          Ledgers(MaxLogs, <<"u1", "u2">>,
                  <<WeekStart, MondayMorning, MondayAfternoon, WeekEnd>>,
                  <<[qty |-> 1, amount_cents |-> Money(40, 0),
                     tip_cents |-> Money(5, 0)]>>,
                  <<"Credit">>)
    /\ Blank
    /\ NoCatalog

NextTime ==
    \/ \E uf \in UserOptions : Reports("This week", uf, DefaultPicks)
    \/ \E k \in MondayPicks : Reports("Custom", "All", k)
    \/ \E k \in MondayPicks : MyDailyTracker(k)
    \/ \E sel \in {"All", "alice"}, k \in MondayPicks : EditServices(sel, k)

SpecTime == InitTime /\ [][NextTime]_vars

(* SpecRange: the ranges resolved at different instants `now`: every day   *)
(* of two weeks around the start of daylight time, ends of months and the  *)
(* end of daylight time; the store holds one log, served a day after now.  *)

NowSpan == 13         \* days after Sunday 2024-03-03 at which a report is run

NowDays ==
    { Ymd2Ord(2024, 3, 3) + k : k \in 0 .. NowSpan }
      \cup { Ymd2Ord(2024, 1, 31), Ymd2Ord(2024, 3, 31), Ymd2Ord(2024, 11, 3),
             Ymd2Ord(2024, 11, 6) }

NowSet == { DT(d, Hours(h), 0, 0) : d \in NowDays, h \in {7, 15, 23} }

InitRange ==
    /\ now \in NowSet
    /\ proc_tz \in {"UTC", "US/Central"}
    /\ users = UsersWith(50, 100)
    /\ auth_user = SessionOf("u1")
    /\ service_logs =
          { [id |-> 1, user_id |-> "u1", served_at |-> AddDays(now, 1),
             qty |-> 1, amount_cents |-> Money(40, 0),
             tip_cents |-> Money(5, 0), payment_type |-> "Credit"] }
    /\ Blank
    /\ NoCatalog

NextRange ==
    \/ \E p \in QuickPeriods : Reports(p, "All", DefaultPicks)
    \/ Reports("Custom", "All", DefaultPicks)
    \/ MyDailyTracker(DefaultPicks)
    \/ EditServices("All", DefaultPicks)

SpecRange == InitRange /\ [][NextRange]_vars

-----------------------------------------------------------------------------
(* Properties of the computed rows and the summaries.                      *)

\* the log a row was computed from
LogOf(row) == CHOOSE r \in service_logs : r.id = row.src

Reported == tab \in {"Reports", "My Daily Tracker"}

\* the rows of the flat view with the keys of group g
RowsOfSums(g) ==
    {i \in DOMAIN df : /\ df[i].User = g.User
                       /\ df[i].PaymentType = g.PaymentType
                       /\ df[i].UserPercent = g.UserPercent}

RowsOfUser(g) ==
    {i \in DOMAIN df : df[i].User = g.User /\ df[i].UserPercent = g.Percentage}

\* C1: every computed row has Total Service Amount = amount_cents * qty and
\* Total = amount_cents * qty * service_percentage / 100 + tip_cents, and
\* its Qty, Tip, User Percent and Payment Type are those of its log and of
\* the log's user.
C1_ComputedRow ==
    Reported =>
        \A i \in DOMAIN rows :
            LET row == rows[i]
                r == LogOf(row)
                pct == users[r.user_id].service_percentage
            IN  /\ row.TotalServiceAmount = r.amount_cents * r.qty
                /\ 100 * row.Total
                     = r.amount_cents * r.qty * pct + 100 * r.tip_cents
                /\ row.Qty = r.qty
                /\ row.Tip = r.tip_cents
                /\ row.UserPercent = pct
                /\ row.PaymentType = r.payment_type

\* a row of a log with quantity 2, a tip and a percentage of 50 is shown
C1_Witness ==
    /\ Reported
    /\ \E i \in DOMAIN rows :
          /\ rows[i].Qty = 2
          /\ rows[i].UserPercent = 50
          /\ rows[i].Tip > 0
          /\ rows[i].Total = Money(22, 0)

\* C2: in 'Totals per User & Payment Type' every group's Total Service
\* Amount, Total Tip and Total with Percent + tip are the sums of Total
\* Service Amount, Tip and Total over the flat rows of the group.
C2_SumsReconcile ==
    (tab = "Reports" /\ view = "table") =>
        \A g \in sums :
            /\ g.TotalServiceAmount
                 = SumCol(df, RowsOfSums(g), "TotalServiceAmount")
            /\ g.TotalTip = SumCol(df, RowsOfSums(g), "Tip")
            /\ g.TotalWithPercentTip = SumCol(df, RowsOfSums(g), "Total")

\* C3: in 'Overall Totals per User' every group's Total with Percent + Tip
\* is the sum of the Total of the flat rows of the group.
C3_OverallTotals ==
    (tab = "Reports" /\ view = "table") =>
        \A g \in user_summary :
            g.TotalWithPercentTip = SumCol(df, RowsOfUser(g), "Total")

\* the logs that match the filters of the report displayed
Matching ==
    { r \in service_logs :
        /\ NotAfter(start_utc, r.served_at)
        /\ NotAfter(r.served_at, end_utc)
        /\ IF tab = "My Daily Tracker" THEN r.user_id = auth_user.id
           ELSE user_filter = "All" \/ users[r.user_id].username = user_filter }

\* C10: when the resolved end is earlier than the resolved start, or no log
\* matches the filters, no row is returned, the 'no data' message is shown
\* and no table; when a log matches, the table is shown with one row per
\* matching log and the message is not, whatever the amounts.
C10_EmptyResult ==
    Reported =>
        /\ Before(end_utc, start_utc) => rows = << >>
        /\ Matching = {} => (rows = << >> /\ view = "nodata" /\ df = << >>)
        /\ Matching # {} =>
              (view = "table" /\ Len(df) = Cardinality(Matching))

\* a table whose rows all have amount, tip and total zero is shown
C10_Witness ==
    /\ Reported
    /\ view = "table"
    /\ \A i \in DOMAIN df :
          /\ df[i].TotalServiceAmount = 0
          /\ df[i].Tip = 0
          /\ df[i].Total = 0

\* a range whose end is before its start was resolved
C10_ReversedRange == ~ (Reported /\ Before(end_utc, start_utc))

-----------------------------------------------------------------------------
(* Properties of the order of the flat view and of the range.              *)

\* C4: the flat view is sorted by service timestamp descending: of two
\* adjacent rows the upper one was served later than, or when, the lower.
C4_SortedByInstant ==
    (Reported /\ view = "table") =>
        \A i \in 1 .. Len(df) - 1 :
            NotAfter(LogOf(df[i + 1]).served_at, LogOf(df[i]).served_at)

\* the ids of the logs the page got from the store
Returned ==
    IF tab = "Edit Services"
    THEN {raw_services[i].id : i \in DOMAIN raw_services}
    ELSE {rows[i].src : i \in DOMAIN rows}

\* the logs of the users the page asks for
OfUser ==
    { r \in service_logs :
        IF tab = "My Daily Tracker" THEN r.user_id = auth_user.id
        ELSE user_filter = "All" \/ users[r.user_id].username = user_filter }

\* C5 as stated: the range is half-open, a log served at the resolved start
\* is returned and a log served at the resolved end is not.
C5_HalfOpen ==
    tab # None =>
        \A r \in OfUser :
            /\ (r.served_at = start_utc /\ Before(start_utc, end_utc))
                  => r.id \in Returned
            /\ r.served_at = end_utc => r.id \notin Returned

\* C5, amended: the range is closed, a log served at the resolved start is
\* returned and so is a log served at the resolved end (the start not being
\* after the end); no log served before the start or after the end is.
C5_ClosedRange ==
    tab # None =>
        \A r \in OfUser :
            /\ (r.served_at = start_utc /\ NotAfter(start_utc, end_utc))
                  => r.id \in Returned
            /\ (r.served_at = end_utc /\ NotAfter(start_utc, end_utc))
                  => r.id \in Returned
            /\ r.id \in Returned
                  => (NotAfter(start_utc, r.served_at)
                      /\ NotAfter(r.served_at, end_utc))

\* a log served at the resolved start and another served at the resolved
\* end are both returned
C5_Witness ==
    /\ tab # None
    /\ \E r1, r2 \in service_logs :
          /\ r1.served_at = start_utc
          /\ r2.served_at = end_utc
          /\ Before(start_utc, end_utc)
          /\ {r1.id, r2.id} \subseteq Returned

\* the local date of now, and the instant of a wall clock of US/Central
LocalDate == ToCentral(now).date
LocalInstant(d, sec, us) == ToUtc(Localize(Naive(d, sec, us)))
LocalMidnight(d) == LocalInstant(d, 0, 0)
LocalEndOfDay(d) == LocalInstant(d, SecondsPerDay - 1, LastMicrosecond)

\* the Sunday on or before day d
SundayOnOrBefore(d) == CHOOSE x \in (d - 6) .. d : Weekday(x) = 6

\* the instant one microsecond after u
NextMicrosecond(u) ==
    IF u.us < LastMicrosecond THEN [u EXCEPT !.us = u.us + 1]
    ELSE [AddSeconds(u, 1) EXCEPT !.us = 0]

\* C6: 'This week' runs from 00:00:00 local of the Sunday on or before now
\* to 23:59:59.999999 local of the Saturday six days later, and now lies in
\* the range.
C6_ThisWeek ==
    (tab = "Reports" /\ period = "This week") =>
        LET sunday == SundayOnOrBefore(LocalDate)
        IN  /\ start_utc = LocalMidnight(sunday)
            /\ end_utc = LocalEndOfDay(sunday + 6)
            /\ NotAfter(start_utc, now)
            /\ NotAfter(now, end_utc)

\* C7: 'Last week' runs from 00:00:00 local of the Sunday seven days before
\* this week's Sunday to 23:59:59.999999 local of the Saturday before this
\* week's Sunday, and 'This week' starts right after it ends.
C7_LastWeek ==
    (tab = "Reports" /\ period = "Last week") =>
        LET sunday == SundayOnOrBefore(LocalDate)
        IN  /\ start_utc = LocalMidnight(sunday - 7)
            /\ end_utc = LocalEndOfDay(sunday - 1)
            /\ NextMicrosecond(end_utc)
                 = astimezone_utc(QuickRange("This week")[1])

\* C8: 'This month' runs from 00:00:00 local of day 1 of now's month to
\* 23:59:59.999999 local of now's day, and no log served after the end of
\* now's day is in the report.
C8_ThisMonth ==
    (tab = "Reports" /\ period = "This month") =>
        /\ start_utc = LocalMidnight(LocalDate - (DayOf(LocalDate) - 1))
        /\ end_utc = LocalEndOfDay(LocalDate)
        /\ \A i \in DOMAIN rows :
              NotAfter(LogOf(rows[i]).served_at, LocalEndOfDay(LocalDate))

\* C9: a picked range is the picked wall clock read in US/Central, whatever
\* the time zone of the process.
C9_FixedZone ==
    (tab \in {"My Daily Tracker", "Edit Services"}
       \/ (tab = "Reports" /\ period = "Custom")) =>
        /\ start_utc = ToUtc(Localize(start))
        /\ end_utc = ToUtc(Localize(end))

-----------------------------------------------------------------------------
(* The user restriction of the query.                                      *)

\* the logs served in the resolved range, whoever owns them
InRange ==
    { r \in service_logs :
        NotAfter(start_utc, r.served_at) /\ NotAfter(r.served_at, end_utc) }

\* C11: with a username as user filter every returned row is owned by the
\* account of that name; with "All" (and no user id) every log in the range
\* is returned, whoever owns it; in My Daily Tracker every returned row is
\* owned by the signed in user.
C11_UserRestriction ==
    /\ (tab = "Reports" /\ user_filter # "All") =>
          \A i \in DOMAIN rows :
              /\ users[LogOf(rows[i]).user_id].username = user_filter
              /\ rows[i].User = user_filter
    /\ (tab = "Reports" /\ user_filter = "All") =>
          {rows[i].src : i \in DOMAIN rows} = {r.id : r \in InRange}
    /\ tab = "My Daily Tracker" =>
          \A i \in DOMAIN rows : LogOf(rows[i]).user_id = auth_user.id

\* a report for bob that shows rows and leaves out a log of alice served in
\* the range
C11_Witness ==
    /\ tab = "Reports" /\ user_filter = "bob" /\ rows # << >>
    /\ \E r \in InRange : users[r.user_id].username = "alice"

-----------------------------------------------------------------------------
(* SpecExport: stores whose amounts and tips have cents, and quantities    *)
(* that give earnings with more than two decimals; some logs carry no      *)
(* payment type.                                                           *)

ExportMoney ==
    << [qty |-> 1, amount_cents |-> Money(40, 50), tip_cents |-> Money(5, 25)],
       [qty |-> 3, amount_cents |-> Money(0, 5), tip_cents |-> Money(0, 0)] >>

InitExport ==
    /\ now = NowWednesday
    /\ proc_tz = "UTC"
    /\ \E p \in PercentSet : users = UsersWith(p, 100 - p)
    /\ auth_user = SessionOf("u1")
    /\ service_logs \in
          Ledgers(MaxLogs, <<"u1", "u2">>, <<MondayMorning, MondayAfternoon>>,
                  ExportMoney, <<"Credit", None>>)
    /\ Blank
    /\ NoCatalog

NextExport ==
    \/ \E uf \in UserOptions : Reports("This week", uf, DefaultPicks)
    \/ Reports("Last week", "All", DefaultPicks)

SpecExport == InitExport /\ [][NextExport]_vars

\* a report that shows a table
Exported == tab = "Reports" /\ view = "table"

\* C19: the document starts with the header Date & Time, User, Qty, User
\* Percent, Service Amount, Total Service Amount, Tip, Payment Type, Total,
\* and then has one record per row of the flat view, in the order of the
\* flat view and with its values.
C19_CsvExport ==
    Exported =>
        /\ Len(csv) = Len(df) + 1
        /\ csv[1] = << "Date & Time", "User", "Qty", "User Percent",
                       "Service Amount", "Total Service Amount", "Tip",
                       "Payment Type", "Total" >>
        /\ \A i \in DOMAIN df :
              LET rec == csv[i + 1] IN
              /\ Len(rec) = 9
              /\ rec[1] = df[i].DateTime
              /\ rec[2] = df[i].User
              /\ parse_int(rec[3]) = df[i].Qty
              /\ parse_int(rec[4]) = df[i].UserPercent
              /\ parse_float(rec[5]) = df[i].ServiceAmount
              /\ parse_float(rec[6]) = df[i].TotalServiceAmount
              /\ parse_float(rec[7]) = df[i].Tip
              /\ rec[8] = (IF df[i].PaymentType = None THEN ""
                           ELSE df[i].PaymentType)
              /\ parse_float(rec[9]) = df[i].Total

\* a document of two records that differ in their date and their total
C19_Witness ==
    /\ Exported
    /\ Len(csv) = 3
    /\ csv[2][1] # csv[3][1]
    /\ csv[2][9] # csv[3][9]

\* the document read back: its money columns
Reparsed ==
    [i \in 1 .. Len(csv) - 1 |->
        [ TotalServiceAmount |-> parse_float(csv[i + 1][6]),
          Tip |-> parse_float(csv[i + 1][7]),
          Total |-> parse_float(csv[i + 1][9]) ]]

\* C20: the sums of the Total Service Amount, Tip and Total columns of the
\* document read back are the grand totals of the flat view.
C20_RoundTrip == Exported => grand_totals(Reparsed) = grand_totals(df)

\* a document of two records, a Total of which has three decimals
C20_Witness ==
    /\ Exported
    /\ Len(csv) = 3
    /\ \E i \in DOMAIN df :
          /\ df[i].Total % 100 # 0
          /\ Len(csv[i + 1][9].frac) = 3

-----------------------------------------------------------------------------
(* Two runs of the same report.                                            *)

\* the columns of a row
Visible(row) ==
    << row.DateTime, row.User, row.Qty, row.UserPercent, row.ServiceAmount,
       row.TotalServiceAmount, row.Tip, row.PaymentType, row.Total >>

\* the flat view as displayed
Displayed(d) == [i \in DOMAIN d |-> Visible(d[i])]

\* C15: a report run again with the same selection on the same store shows
\* the same rows in the same order, the same summaries and the same
\* document.
C15_Idempotent ==
    [][ ( /\ tab \in {"Reports", "My Daily Tracker"}
          /\ tab' = tab
          /\ period' = period
          /\ user_filter' = user_filter
          /\ start' = start
          /\ end' = end
          /\ users' = users
          /\ service_logs' = service_logs )
        => ( /\ Displayed(df') = Displayed(df)
             /\ grp_user' = grp_user
             /\ sums' = sums
             /\ user_summary' = user_summary
             /\ by_type' = by_type
             /\ totals' = totals
             /\ csv' = csv ) ]_vars

-----------------------------------------------------------------------------
(* The pages that write to the store.                                      *)

\* what a page without a report leaves on the screen
NoReport ==
    /\ period' = None
    /\ start' = Unset
    /\ end' = Unset
    /\ start_utc' = Unset
    /\ end_utc' = Unset
    /\ rows' = << >>
    /\ view' = "none"
    /\ df' = << >>
    /\ sums' = {}
    /\ grp_user' = {}
    /\ user_summary' = {}
    /\ by_type' = {}
    /\ totals' = NoTotals
    /\ csv' = << >>

\* what is typed in a text input: nothing, a number, or something else
Number(v) == [kind |-> "number", value |-> v]
Garbage == [kind |-> "text", value |-> 0]

\* the id the store gives to a new record
NewId(logs) == CHOOSE i \in 1 .. Cardinality(logs) + 1 :
                  \A r \in logs : r.id # i

\* the messages of st.error for the submitted amount and tip
LogErrors(amount_str, tip_str) ==
    LET tip == IF tip_str.kind = "number" THEN tip_str.value ELSE 0
    IN  (IF amount_str.kind = "text"
         THEN {"Service Amount must be a number."} ELSE {})
        \cup (IF tip_str.kind = "text"
              THEN {"Tip must be a number."} ELSE {})
        \cup (IF amount_str.kind # "number" \/ amount_str.value <= 0
              THEN {"Service Amount is required and must be greater than zero."}
              ELSE IF tip < 0 THEN {"Tip cannot be negative."} ELSE {})

\* the branch that saves: qty = 1, an amount above zero, a tip not below
LogAccepted(amount_str, tip_str) ==
    LET tip == IF tip_str.kind = "number" THEN tip_str.value ELSE 0
    IN  amount_str.kind = "number" /\ amount_str.value > 0 /\ tip >= 0

\* Log Services, a press of "Save entry"
LogServices(amount_str, tip_str, payment_type, selected_user, served) ==
    /\ is_admin
    /\ auth_user.id \in ActiveUsers
    /\ selected_user \in {users[u].username : u \in ActiveUsers}
    /\ LET qty == 1
           tip == IF tip_str.kind = "number" THEN tip_str.value ELSE 0
           served_at == IF served.picked
                        THEN [combine(served.date, served.time)
                                 EXCEPT !.aware = TRUE]
                        ELSE now
           saved == LogAccepted(amount_str, tip_str)
       IN  /\ saved => Cardinality(service_logs) < MaxLogs
           /\ service_logs' =
                 IF saved
                 THEN service_logs \cup
                        { [ id |-> NewId(service_logs),
                            user_id |-> UserIdOf(selected_user, ActiveUsers),
                            served_at |-> served_at,
                            qty |-> qty,
                            amount_cents |-> amount_str.value,
                            tip_cents |-> tip,
                            payment_type |-> payment_type ] }
                 ELSE service_logs
           /\ submitted' = [ button |-> "Save entry", amount |-> amount_str,
                             tip |-> tip_str, served |-> served,
                             errors |-> LogErrors(amount_str, tip_str),
                             saved |-> saved ]
    /\ tab' = "Log Services"
    /\ user_filter' = None
    /\ raw_services' = << >>
    /\ NoReport
    /\ UNCHANGED <<program, now, proc_tz, auth_user, users, session_state>>
    /\ UNCHANGED catalog_vars

\* strftime("%Y-%m-%d %I:%M %p"): the string, as the tuple of its fields
strftime_minute(dt) ==
    LET f == strftime(dt) IN << f[1], f[2], f[3], f[4], f[5], f[7] >>

\* the label of a log in the picker: time, user name, amount and tip
Label(svc) ==
    << strftime_minute(ToCentral(svc.served_at)),
       IF svc.user_id \in ActiveUsers THEN users[svc.user_id].username
       ELSE "Unknown",
       svc.amount_cents, svc.tip_cents >>

\* options[label] = svc["id"] for every listed log in turn: the ids the
\* picker can give, a later log taking the label of an earlier one
OptionsOf(listed) ==
    { listed[i].id : i \in { j \in DOMAIN listed :
          \A l \in DOMAIN listed : l > j => Label(listed[l]) # Label(listed[j]) } }

\* the filters of Edit Services on the table `logs`
Listing(logs, sel, s_utc, e_utc) ==
    { r \in logs :
        /\ NotAfter(s_utc, r.served_at)
        /\ NotAfter(r.served_at, e_utc)
        /\ sel # "All" => r.user_id = UserIdOf(sel, ActiveUsers) }

\* the part of Edit Services shared by its two buttons: the page lists the
\* logs of the filters, one is picked, the button writes `after` to the
\* table and st.rerun() lists the logs again
EditPage(sel, k, service_id, after) ==
    /\ is_admin
    /\ sel \in UserOptions
    /\ LET range == PickedRange(k)
           s_utc == astimezone_utc(range[1])
           e_utc == astimezone_utc(range[2])
       IN  /\ start' = range[1]
           /\ end' = range[2]
           /\ start_utc' = s_utc
           /\ end_utc' = e_utc
           /\ \E listed \in OrderBy(Query(None, s_utc, e_utc, sel, ActiveUsers)) :
                 service_id \in OptionsOf(listed)
           /\ service_logs' = after
           /\ raw_services' \in OrderBy(Listing(after, sel, s_utc, e_utc))
    /\ rows' = << >>
    /\ view' = "none"
    /\ df' = << >>
    /\ sums' = {}
    /\ grp_user' = {}
    /\ user_summary' = {}
    /\ by_type' = {}
    /\ totals' = NoTotals
    /\ csv' = << >>
    /\ tab' = "Edit Services"
    /\ period' = None
    /\ user_filter' = sel
    /\ UNCHANGED <<program, now, proc_tz, auth_user, users, session_state>>
    /\ UNCHANGED catalog_vars

\* Edit Services, a press of "Update Service" for the picked log, with the
\* amount, tip and payment type of the inputs; the date and time inputs
\* show the log's own (US/Central) unless picked
UpdateService(sel, k, service_id, new_amount, new_tip, new_payment_type, served) ==
    /\ new_amount >= 0
    /\ new_tip >= 0
    /\ LET svc == CHOOSE r \in service_logs : r.id = service_id
           served_at_central == ToCentral(svc.served_at)
           new_date == IF served.picked THEN served.date
                       ELSE served_at_central.date
           new_time == IF served.picked THEN served.time
                       ELSE [sec |-> served_at_central.sec,
                             us |-> served_at_central.us]
           new_served_at == ToUtc(Localize(combine(new_date, new_time)))
           updated == [svc EXCEPT !.amount_cents = new_amount,
                                  !.tip_cents = new_tip,
                                  !.payment_type = new_payment_type,
                                  !.served_at = new_served_at]
       IN  /\ \E r \in service_logs : r.id = service_id
           /\ EditPage(sel, k, service_id,
                       (service_logs \ {svc}) \cup {updated})
    /\ submitted' = [ button |-> "Update Service",
                      amount |-> Number(new_amount), tip |-> Number(new_tip),
                      served |-> served, errors |-> {}, saved |-> TRUE ]

\* Edit Services, a press of "Delete Service" for the picked log
DeleteService(sel, k, service_id) ==
    /\ EditPage(sel, k, service_id,
                {r \in service_logs : r.id # service_id})
    /\ submitted' = [ button |-> "Delete Service", amount |-> NoText,
                      tip |-> NoText, served |-> NotPicked, errors |-> {},
                      saved |-> FALSE ]

\* Users Management, a press of "Update user" with the percentage input
\* (0 to 100) for the user picked by name
UpdateUser(target_user, new_percent) ==
    /\ is_admin
    /\ target_user \in {users[u].username : u \in DOMAIN users}
    /\ new_percent \in 0 .. 100
    /\ users' = [u \in DOMAIN users |->
                    IF users[u].username = target_user
                    THEN [users[u] EXCEPT !.service_percentage = new_percent]
                    ELSE users[u]]
    /\ submitted' = [ button |-> "Update user", amount |-> NoText,
                      tip |-> NoText, served |-> NotPicked, errors |-> {},
                      saved |-> TRUE ]
    /\ tab' = "Users Management"
    /\ user_filter' = None
    /\ raw_services' = << >>
    /\ NoReport
    /\ UNCHANGED <<program, now, proc_tz, auth_user, service_logs, session_state>>
    /\ UNCHANGED catalog_vars

\* Reports, a script run without a press of "Run report" (the page is
\* opened, or an input is changed): the report is fetched and displayed
\* when the flag run_report is set, and not otherwise
ReportsTab(p, uf, k) ==
    IF ReportsSession(session_state["app"], FALSE)["run_report"]
    THEN Reports(p, uf, k)
    ELSE /\ is_admin
         /\ uf \in UserOptions
         /\ LET range == IF p # "Custom" THEN QuickRange(p)
                         ELSE PickedRange(k)
            IN  start' = range[1] /\ end' = range[2]
         /\ start_utc' = Unset
         /\ end_utc' = Unset
         /\ rows' = << >>
         /\ view' = "none"
         /\ df' = << >>
         /\ sums' = {}
         /\ grp_user' = {}
         /\ user_summary' = {}
         /\ csv' = << >>
         /\ by_type' = {}
         /\ totals' = NoTotals
         /\ tab' = "Reports"
         /\ period' = p
         /\ user_filter' = uf
         /\ raw_services' = << >>
         /\ submitted' = NoForm
         /\ session_state' =
               [session_state EXCEPT !["app"] = ReportsSession(@, FALSE)]
         /\ ReadOnly
         /\ UNCHANGED <<program, now, proc_tz, auth_user>>
         /\ UNCHANGED catalog_vars

-----------------------------------------------------------------------------
(* SpecUsers: the percentage of a user is changed between reports of logs  *)
(* that were all made before the change.                                   *)

InitUsers ==
    /\ now = NowWednesday
    /\ proc_tz = "UTC"
    /\ users = UsersWith(FirstPercent["u1"], FirstPercent["u2"])
    /\ auth_user = SessionOf("u1")
    /\ service_logs \in
          Ledgers(MaxLogs, <<"u1", "u2">>, <<MondayMorning>>, ExportMoney,
                  <<"Credit">>)
    /\ Blank
    /\ NoCatalog

NextUsers ==
    \/ \E target_user \in {"alice", "bob"}, new_percent \in PercentSet :
          UpdateUser(target_user, new_percent)
    \/ \E uf \in UserOptions : Reports("This week", uf, DefaultPicks)
    \/ MyDailyTracker(DefaultPicks)

SpecUsers == InitUsers /\ [][NextUsers]_vars

\* C12: every report computes User Percent and Total from the percentage
\* the user has when the report is run, for every entry of the user,
\* whatever the percentage was when the entry was logged.
C12_CurrentPercent ==
    Reported =>
        \A i \in DOMAIN rows :
            LET r == LogOf(rows[i])
                pct == users[r.user_id].service_percentage
            IN  /\ rows[i].UserPercent = pct
                /\ rows[i].Total
                      = PercentOf(r.amount_cents * r.qty, pct) + r.tip_cents

\* a report run after a change of percentage: the rows of two entries of a
\* user carry a percentage that is not the one the user had at first, and
\* a Total that is not the one of that first percentage
C12_Witness ==
    /\ tab = "Reports"
    /\ \E i, j \in DOMAIN rows :
          /\ i # j
          /\ rows[i].User = rows[j].User
          /\ \A l \in {i, j} :
                LET r == LogOf(rows[l]) IN
                /\ rows[l].UserPercent # FirstPercent[r.user_id]
                /\ rows[l].Total # PercentOf(r.amount_cents * r.qty,
                                             FirstPercent[r.user_id])
                                     + r.tip_cents

\* C14: a run of Reports or of My Daily Tracker, from the resolution of the
\* range to the export, leaves the tables of users, logs and services as
\* they were, record by record.
C14_ReadOnly ==
    [][ tab' \in {"Reports", "My Daily Tracker"}
        => ( /\ users' = users
             /\ service_logs' = service_logs
             /\ services' = services
             /\ catalog_logs' = catalog_logs ) ]_vars

\* a report of a table and its document, run after a percentage was
\* changed, with the logs it shows still in the store
C14_Witness ==
    /\ tab = "Reports" /\ view = "table" /\ Len(csv) = Len(rows) + 1
    /\ users # UsersWith(FirstPercent["u1"], FirstPercent["u2"])
    /\ \A i \in DOMAIN rows : \E r \in service_logs : r.id = rows[i].src

-----------------------------------------------------------------------------
(* SpecStore: entries are logged, edited and deleted, starting from an     *)
(* empty table of logs.                                                    *)

\* what is typed as amount and as tip
AmountInputs == {NoText, Garbage, Number(0), Number(Money(40, 50))}
TipInputs == {NoText, Garbage, Number(0 - Money(1, 0)), Number(Money(5, 25))}

\* what the amount input of Edit Services is set to
EditAmounts == {0, Money(20, 0)}

InitStore ==
    /\ now = NowWednesday
    /\ proc_tz = "UTC"
    /\ users = UsersWith(50, 100)
    /\ auth_user = SessionOf("u1")
    /\ service_logs = {}
    /\ Blank
    /\ NoCatalog

NextStore ==
    \/ \E amount_str \in AmountInputs, tip_str \in TipInputs :
          LogServices(amount_str, tip_str, "Credit", "alice", NotPicked)
    \/ EditServices("All", DefaultPicks)
    \/ \E service_id \in 1 .. MaxLogs, new_amount \in EditAmounts :
          UpdateService("All", DefaultPicks, service_id, new_amount, 0,
                        "Cash", NotPicked)
    \/ \E service_id \in 1 .. MaxLogs :
          DeleteService("All", DefaultPicks, service_id)
    \/ Reports("This week", "All", DefaultPicks)

SpecStore == InitStore /\ [][NextStore]_vars

\* C17: the amount and the tip that "Save entry" or "Update Service" writes
\* are integers, 100 times the values entered (no tip entered being a tip
\* of zero), and the rows of a report are computed from the stored values.
\* A number n of the code is written n * 10000 here.
C17_MinorUnits ==
    [][ (submitted'.saved
         /\ submitted'.button \in {"Save entry", "Update Service"})
        => \A r \in service_logs' \ service_logs :
              LET tip == IF submitted'.tip.kind = "number"
                         THEN submitted'.tip.value ELSE 0
              IN  /\ r.amount_cents = 100 * submitted'.amount.value
                  /\ r.tip_cents = 100 * tip
                  /\ r.amount_cents % 10000 = 0
                  /\ r.tip_cents % 10000 = 0 ]_vars

\* C18: every stored log has a quantity of 1 at least, a tip of 0 at least
\* and an amount above 0.
C18_Billable ==
    \A r \in service_logs :
        r.qty >= 1 /\ r.tip_cents >= 0 /\ r.amount_cents > 0

-----------------------------------------------------------------------------
(* The catalog schema (src/app_v2.py, src/app_v3.py): a log refers to a    *)
(* service of the catalog, which has the price; prices and tips are        *)
(* integers of cents; the ranges are dates.                                *)

\* date.today(): the date of the process's time zone
date_today == IF proc_tz = "UTC" THEN now.date ELSE ToCentral(now).date

\* the quick range p as dates, or the dates picked
CatalogRange(p, k) ==
    LET t == date_today
        wd == Weekday(t)
        first_this == t - (DayOf(t) - 1)
        last_month_end == first_this - 1
    IN  CASE p = "This week" -> << t - wd, t >>
          [] p = "Last week" -> << t - (wd + 1) - 6, t - (wd + 1) >>
          [] p = "This month" -> << first_this, t >>
          [] p = "Last month" ->
                << last_month_end - (DayOf(last_month_end) - 1),
                   last_month_end >>
          [] OTHER -> << k.start_date, k.end_date >>

\* a date literal "YYYY-MM-DD" compared with an instant: the store reads
\* it as the start of that day
DateLiteral(d) == DT(d, 0, 0, 0)

\* the services of the "Service" select box
ServiceOptions(include_deactivated) ==
    {"All"} \cup { sv.name : sv \in { x \in services :
                      include_deactivated = "Active + Deactivated"
                        \/ x.is_active } }

\* the query of the report: the range, the user and the service
CatalogQuery(range, uf, svc_filter) ==
    { r \in catalog_logs :
        /\ NotAfter(DateLiteral(range[1]), r.served_at)
        /\ NotAfter(r.served_at, DateLiteral(range[2]))
        /\ uf # "All" => r.user_id = UserIdOf(uf, ActiveUsers)
        /\ svc_filter # "All" =>
              r.service_id = (CHOOSE sv \in services :
                                 sv.name = svc_filter).id }

\* the result of a query without order: the records in any order
AnyOrder(S) ==
    LET n == Cardinality(S) IN
    { q \in [1 .. n -> S] : \A i, j \in 1 .. n : i # j => q[i] # q[j] }

\* one row of the report; prices and tips are divided by 100.0
CatalogRow(r) ==
    LET sv == CHOOSE x \in services : x.id = r.service_id
        price == sv.price_cents * 100
        amount == price * r.qty
    IN  [ DateTime |-> r.served_at,
          User |-> users[r.user_id].username,
          Service |-> sv.name,
          Inactive |-> ~ sv.is_active,
          Qty |-> r.qty,
          ServiceAmount |-> amount,
          Tip |-> r.tip_cents * 100,
          Total |-> amount + r.tip_cents * 100,
          src |-> r.id ]

\* df.groupby("User")[["Service Amount", "Tip", "Total"]].sum()
catalog_sums(d) ==
    LET Grp(u) == {i \in DOMAIN d : d[i].User = u}
    IN  { [ User |-> u,
            ServiceAmount |-> SumCol(d, Grp(u), "ServiceAmount"),
            Tip |-> SumCol(d, Grp(u), "Tip"),
            Total |-> SumCol(d, Grp(u), "Total") ]
          : u \in {d[i].User : i \in DOMAIN d} }

\* Reports of the catalog schema, a press of "Run report"; app names the
\* variant: the page of app_v3 is for admins, the page of app_v2 for every
\* signed in user
CatalogReports(app, include_deactivated, p, uf, svc_filter, k) ==
    /\ IF app = "app_v3" THEN is_admin ELSE auth_user # NoUser
    /\ uf \in UserOptions
    /\ svc_filter \in ServiceOptions(include_deactivated)
    /\ \E data \in AnyOrder(CatalogQuery(CatalogRange(p, k), uf, svc_filter)) :
          LET d == [i \in 1 .. Len(data) |-> CatalogRow(data[i])]
              shown == data # << >>
          IN  catalog_report' =
                [ view |-> IF shown THEN "table" ELSE "nodata",
                  df |-> d,
                  grp_user |-> IF shown THEN groupby_qty(d) ELSE {},
                  sums |-> IF shown THEN catalog_sums(d) ELSE {},
                  totals |-> NoCatalogTotals,
                  app |-> app,
                  page |-> "Reports",
                  include_deactivated |-> include_deactivated,
                  user_filter |-> uf,
                  svc_filter |-> svc_filter,
                  range |-> CatalogRange(p, k) ]
    /\ session_state' =
          IF app = "app_v3"
          THEN [session_state EXCEPT !["app_v3"] = ReportsSession(@, TRUE)]
          ELSE [session_state EXCEPT
                   !["app_v2"] = SetKey(SetDefault(@, "run_report", FALSE),
                                        "run_report", TRUE)]
    /\ UNCHANGED <<program, now, proc_tz, auth_user, users, service_logs, tab, period,
                   user_filter, start, end, start_utc, end_utc, rows, view,
                   df, sums, user_summary, raw_services, grp_user, by_type,
                   totals, csv, submitted, services, catalog_logs, cookies>>

-----------------------------------------------------------------------------
(* SpecVariants: the reports of the three variants, over a store of each   *)
(* schema; bob may be an inactive user and "wash" is a deactivated service.*)

Catalog ==
    { [id |-> "s1", name |-> "cut", price_cents |-> 2000, is_active |-> TRUE],
      [id |-> "s2", name |-> "wash", price_cents |-> 1550,
       is_active |-> FALSE] }

\* what a log of the catalog schema can be, but for its id
CatalogEntries ==
    << [user_id |-> "u1", service_id |-> "s1", qty |-> 2],
       [user_id |-> "u2", service_id |-> "s1", qty |-> 1],
       [user_id |-> "u2", service_id |-> "s2", qty |-> 3] >>

\* the stores of at most n logs of the catalog schema, served on Monday
\* with a tip of 5.00
CatalogLedgers(n) ==
    UNION { { { [ id |-> i,
                  user_id |-> CatalogEntries[f[i]].user_id,
                  service_id |-> CatalogEntries[f[i]].service_id,
                  served_at |-> MondayMorning,
                  qty |-> CatalogEntries[f[i]].qty,
                  tip_cents |-> 500 ] : i \in 1 .. k } :
                f \in {g \in [1 .. k -> 1 .. Len(CatalogEntries)] :
                         \A i \in 1 .. k - 1 : g[i] <= g[i + 1]} }
            : k \in 0 .. n }

\* the table of users with user u made inactive
Deactivated(us, u) == [us EXCEPT ![u].is_active = FALSE]

InitVariants ==
    /\ now = NowWednesday
    /\ proc_tz = "UTC"
    /\ users \in {UsersWith(50, 100), UsersWith(100, 50),
                   Deactivated(UsersWith(50, 100), "u2")}
    /\ auth_user = SessionOf("u1")
    /\ service_logs \in
          Ledgers(MaxLogs, <<"u1", "u2">>, <<MondayMorning>>,
                  SubSeq(CalcMoney, 2, 2), <<"Credit">>)
    /\ services = Catalog
    /\ catalog_logs \in CatalogLedgers(MaxLogs)
    /\ catalog_report = NoCatalogReport
    /\ cookies = None
    /\ Blank

NextVariants ==
    \/ Reports("This week", "All", DefaultPicks)
    \/ CatalogReports("app_v2", "Active only", "This week", "All", "All",
                      DefaultPicks)
    \/ \E inc \in {"Active only", "Active + Deactivated"} :
          \E svc_filter \in ServiceOptions(inc) :
             CatalogReports("app_v3", inc, "This week", "All", svc_filter,
                            DefaultPicks)

SpecVariants == InitVariants /\ [][NextVariants]_vars

\* the sum of the Qty of the rows of user u in the flat view d
RECURSIVE QtyOfUser(_, _)
QtyOfUser(d, u) ==
    IF d = << >> THEN 0
    ELSE (IF Head(d).User = u THEN Head(d).Qty ELSE 0) + QtyOfUser(Tail(d), u)

\* Services Completed per User is, for each user of the flat view d, the sum
\* of the Qty of the user's rows
CompletedIsQty(g, d) ==
    /\ {x.User : x \in g} = {d[i].User : i \in DOMAIN d}
    /\ \A x \in g : x.ServicesCompleted = QtyOfUser(d, x.User)
    /\ \A x, y \in g : x.User = y.User => x = y

\* C13: in the report of app.py and in the reports of the catalog variants
\* (app_v2.py, app_v3.py), "Services Completed" of a user is the sum of the
\* quantities of the user's rows in the flat view, whatever their number
\* and whatever the user's percentage.
C13_ServicesCompleted ==
    /\ (tab = "Reports" /\ view = "table") => CompletedIsQty(grp_user, df)
    /\ catalog_report.view = "table" =>
          CompletedIsQty(catalog_report.grp_user, catalog_report.df)

\* both reports show a user whose Services Completed is not the number of
\* the user's rows
C13_Witness ==
    /\ tab = "Reports" /\ view = "table"
    /\ \E x \in grp_user :
          x.ServicesCompleted
            # Cardinality({i \in DOMAIN df : df[i].User = x.User})
    /\ catalog_report.view = "table"
    /\ \E x \in catalog_report.grp_user :
          x.ServicesCompleted
            # Cardinality({i \in DOMAIN catalog_report.df :
                             catalog_report.df[i].User = x.User})

\* a row that carries a marker, set
Marked(row) == "Inactive" \in DOMAIN row /\ row.Inactive

\* the logs of the catalog schema that the last report asked for, the
\* choice of "Services to include" left aside
CatalogAsked ==
    { r \in catalog_logs :
        /\ NotAfter(DateLiteral(catalog_report.range[1]), r.served_at)
        /\ NotAfter(r.served_at, DateLiteral(catalog_report.range[2]))
        /\ catalog_report.user_filter # "All" =>
              users[r.user_id].username = catalog_report.user_filter
        /\ catalog_report.svc_filter # "All" =>
              \E sv \in services : /\ sv.id = r.service_id
                                    /\ sv.name = catalog_report.svc_filter }

\* C16: a log in the range whose user is inactive, or whose service is
\* deactivated, is in the flat view with its marker set and is counted in
\* the summaries, in the report of app.py and in the reports of the catalog
\* variants, "Active only" selected or not.
C16_InactiveMarked ==
    /\ (tab = "Reports" /\ user_filter = "All") =>
          \A r \in InRange :
              /\ \E i \in DOMAIN df :
                    /\ df[i].src = r.id
                    /\ ~ users[r.user_id].is_active => Marked(df[i])
              /\ \E x \in grp_user : x.User = users[r.user_id].username
              /\ \E x \in user_summary : x.User = users[r.user_id].username
    /\ catalog_report.view # "none" =>
          \A r \in CatalogAsked :
              /\ \E i \in DOMAIN catalog_report.df :
                    /\ catalog_report.df[i].src = r.id
                    /\ ( \/ ~ users[r.user_id].is_active
                         \/ \E sv \in services :
                               sv.id = r.service_id /\ ~ sv.is_active )
                       => Marked(catalog_report.df[i])
              /\ \E x \in catalog_report.grp_user :
                    x.User = users[r.user_id].username
              /\ \E x \in catalog_report.sums :
                    x.User = users[r.user_id].username

\* the parts of C16 that hold: no log asked for is left out of a flat view,
\* and a log of a deactivated service has its marker set
C16_NothingDropped ==
    /\ (tab = "Reports" /\ user_filter = "All") =>
          {df[i].src : i \in DOMAIN df} = {r.id : r \in InRange}
    /\ catalog_report.view # "none" =>
          /\ {catalog_report.df[i].src : i \in DOMAIN catalog_report.df}
                = {r.id : r \in CatalogAsked}
          /\ \A i \in DOMAIN catalog_report.df :
                catalog_report.df[i].Inactive
                  = (catalog_report.df[i].Service = "wash")

-----------------------------------------------------------------------------
(* SpecTracker: My Daily Tracker over stores some logs of which carry no   *)
(* payment type.                                                           *)

NextTracker ==
    \/ MyDailyTracker(DefaultPicks)
    \/ \E k \in MondayPicks : MyDailyTracker(k)

SpecTracker == InitExport /\ [][NextTracker]_vars

\* the sum of the Total of the groups of S
RECURSIVE SumOfGroups(_)
SumOfGroups(S) ==
    IF S = {} THEN 0
    ELSE LET g == CHOOSE x \in S : TRUE
         IN  g.Total + SumOfGroups(S \ {g})

\* C21: in My Daily Tracker every row of the flat view is in exactly one
\* (Payment Type, User Percent) group of "Totals by Payment Type", and the
\* Totals of the groups add up to "Grand Total", rows without a payment
\* type included.
C21_TrackerReconciles ==
    (tab = "My Daily Tracker" /\ view = "table") =>
        /\ \A i \in DOMAIN df :
              Cardinality({ g \in by_type :
                              /\ g.PaymentType = df[i].PaymentType
                              /\ g.UserPercent = df[i].UserPercent }) = 1
        /\ SumOfGroups(by_type) = totals.Total

\* the part of C21 that holds: the groups reconcile when every row has a
\* payment type
C21_WithPaymentTypes ==
    ( /\ tab = "My Daily Tracker" /\ view = "table"
      /\ \A i \in DOMAIN df : df[i].PaymentType # None ) =>
        /\ \A i \in DOMAIN df :
              Cardinality({ g \in by_type :
                              /\ g.PaymentType = df[i].PaymentType
                              /\ g.UserPercent = df[i].UserPercent }) = 1
        /\ SumOfGroups(by_type) = totals.Total

-----------------------------------------------------------------------------
(* SpecServed: entries logged and updated with an explicit service date    *)
(* and time.                                                               *)

\* the service times picked: 10:00 and 22:30
ServedTimes == { time_of(10, 0, 0), time_of(22, 30, 0) }

NextServed ==
    \/ \E selected_user \in {"alice", "bob"}, t \in ServedTimes :
          LogServices(Number(Money(20, 0)), Number(0), "Credit",
                      selected_user, Picked(Monday, t))
    \/ LogServices(Number(Money(20, 0)), Number(0), "Credit", "alice",
                   NotPicked)
    \/ \E service_id \in 1 .. MaxLogs, t \in ServedTimes :
          UpdateService("All", DefaultPicks, service_id, Money(20, 0), 0,
                        "Cash", Picked(Monday, t))
    \/ \E service_id \in 1 .. MaxLogs :
          DeleteService("All", DefaultPicks, service_id)
    \/ Reports("This week", "All", DefaultPicks)

SpecServed == InitStore /\ [][NextServed]_vars

\* C22: "Save entry" with service date D and time T stores the UTC instant
\* of D T in US/Central, the instant "Update Service" stores for D and T,
\* and a report displays the entry with Date & Time = D T.
C22_ServedAtLocal ==
    [][ ( /\ submitted'.button = "Save entry"
          /\ submitted'.saved
          /\ submitted'.served.picked )
        => \A r \in service_logs' \ service_logs :
              LET local == combine(submitted'.served.date,
                                   submitted'.served.time)
              IN  /\ r.served_at = ToUtc(Localize(local))
                  /\ ComputedRow(r).DateTime = strftime(local) ]_vars

\* what "Update Service" does with D and T: the stored instant is the UTC
\* instant of D T in US/Central
C22_UpdateStoresLocal ==
    [][ ( /\ submitted'.button = "Update Service"
          /\ submitted'.served.picked )
        => \A r \in service_logs' \ service_logs :
              r.served_at = ToUtc(Localize(combine(submitted'.served.date,
                                                   submitted'.served.time))) ]_vars

-----------------------------------------------------------------------------
(* SpecRangeEnd: the reports of the catalog variants over a store of logs  *)
(* served today and on Monday at several times of the day.  Log Services   *)
(* writes served_at as the picked date and the wall-clock time,            *)
(* "YYYY-MM-DDTHH:MM:SS".                                                  *)

\* one row of My Daily Tracker of app_v3
TrackerRow(r) ==
    LET sv == CHOOSE x \in services : x.id = r.service_id
        price == sv.price_cents * 100
        amount == price * r.qty
    IN  [ Date |-> r.served_at,
          Service |-> sv.name,
          Qty |-> r.qty,
          ServiceAmount |-> amount,
          Tip |-> r.tip_cents * 100,
          Total |-> amount + r.tip_cents * 100,
          src |-> r.id ]

\* the default dates of the "From" and "To" inputs
CatalogDefaultPicks ==
    Picks(date_today - 7, DefaultStartTime, date_today, DefaultEndTime)

\* My Daily Tracker of app_v3: the logs of the signed in user between the
\* dates picked, and their totals
CatalogTracker(k) ==
    /\ auth_user # NoUser
    /\ LET range == << k.start_date, k.end_date >>
           logs == { r \in catalog_logs :
                       /\ r.user_id = auth_user.id
                       /\ NotAfter(DateLiteral(range[1]), r.served_at)
                       /\ NotAfter(r.served_at, DateLiteral(range[2])) }
       IN  \E data \in OrderBy(logs) :
              LET d == [i \in 1 .. Len(data) |-> TrackerRow(data[i])]
                  shown == data # << >>
              IN  catalog_report' =
                    [ view |-> IF shown THEN "table" ELSE "nodata",
                      df |-> d,
                      grp_user |-> {},
                      sums |-> {},
                      totals |->
                         IF shown
                         THEN [ ServiceAmount |->
                                   SumCol(d, DOMAIN d, "ServiceAmount"),
                                Tip |-> SumCol(d, DOMAIN d, "Tip"),
                                Total |-> SumCol(d, DOMAIN d, "Total") ]
                         ELSE NoCatalogTotals,
                      app |-> "app_v3",
                      page |-> "My Daily Tracker",
                      include_deactivated |-> None,
                      user_filter |-> auth_user.username,
                      svc_filter |-> "All",
                      range |-> range ]
    /\ UNCHANGED session_state
    /\ UNCHANGED <<program, now, proc_tz, auth_user, users, service_logs, tab, period,
                   user_filter, start, end, start_utc, end_utc, rows, view,
                   df, sums, user_summary, raw_services, grp_user, by_type,
                   totals, csv, submitted, services, catalog_logs, cookies>>

\* the times of day of the logs: midnight, 09:15 and 18:00
TimesOfDay == << 0, Hours(9) + 60 * 15, Hours(18) >>

\* the stores of at most n logs of alice, one "cut" each, served on the
\* given dates at the TimesOfDay
DatedLedgers(n, dates) ==
    LET Stamps == { DT(d, TimesOfDay[j], 0, 0) :
                      d \in dates, j \in DOMAIN TimesOfDay }
    IN  UNION { { { [ id |-> i, user_id |-> "u1", service_id |-> "s1",
                      served_at |-> f[i], qty |-> 1, tip_cents |-> 500 ]
                    : i \in 1 .. k } :
                  f \in { g \in [1 .. k -> Stamps] :
                            \A i \in 1 .. k - 1 : Before(g[i], g[i + 1]) } }
                : k \in 0 .. n }

InitRangeEnd ==
    /\ now = NowWednesday
    /\ proc_tz = "UTC"
    /\ users = UsersWith(50, 100)
    /\ auth_user = SessionOf("u1")
    /\ service_logs = {}
    /\ services = Catalog
    /\ catalog_logs \in DatedLedgers(MaxLogs, {Monday, now.date})
    /\ catalog_report = NoCatalogReport
    /\ cookies = None
    /\ Blank

NextRangeEnd ==
    \/ \E app \in {"app_v2", "app_v3"} :
          \E p \in {"This week", "This month"} :
             CatalogReports(app, "Active only", p, "All", "All",
                            CatalogDefaultPicks)
    \/ \E app \in {"app_v2", "app_v3"} :
          CatalogReports(app, "Active only", "Custom", "All", "All",
                         CatalogDefaultPicks)
    \/ CatalogTracker(CatalogDefaultPicks)
    \/ CatalogTracker(Picks(Monday, DefaultStartTime, Monday, DefaultEndTime))

SpecRangeEnd == InitRangeEnd /\ [][NextRangeEnd]_vars

\* the logs the rendered report of the catalog variants asks for, the end
\* date taken through the end of its day
ServedInRange ==
    { r \in catalog_logs :
        /\ catalog_report.range[1] <= r.served_at.date
        /\ r.served_at.date <= catalog_report.range[2]
        /\ catalog_report.user_filter # "All" =>
              r.user_id = UserIdOf(catalog_report.user_filter, ActiveUsers)
        /\ catalog_report.svc_filter # "All" =>
              r.service_id = (CHOOSE sv \in services :
                                 sv.name = catalog_report.svc_filter).id }

\* C23: in Reports and My Daily Tracker of the catalog variants every log
\* served on a date from "From" to "To", at whatever time of the day of
\* "To", is in the report; so is a log of today in "This week", "This
\* month" and the default Custom range.
C23_EndOfDayInclusive ==
    catalog_report.view # "none" =>
        \A r \in ServedInRange :
            \E i \in DOMAIN catalog_report.df : catalog_report.df[i].src = r.id

\* the part of C23 that holds: the logs served before the "To" date, and at
\* midnight of it, are in the report
C23_BeforeEndDate ==
    catalog_report.view # "none" =>
        \A r \in ServedInRange :
            (r.served_at.date < catalog_report.range[2] \/ r.served_at.sec = 0)
              => \E i \in DOMAIN catalog_report.df :
                    catalog_report.df[i].src = r.id

-----------------------------------------------------------------------------
(* SpecFlag: the admin goes from tab to tab of app.py; "Run report" is     *)
(* pressed on the Reports page.                                            *)

\* a press of "Run report": the button is on the Reports page
RunReport(p, uf, k) == tab = "Reports" /\ Reports(p, uf, k)

InitFlag ==
    /\ now = NowWednesday
    /\ proc_tz = "UTC"
    /\ users = UsersWith(50, 100)
    /\ auth_user = SessionOf("u1")
    /\ service_logs \in
          Ledgers(MaxLogs, <<"u1", "u2">>, <<MondayMorning>>,
                  SubSeq(CalcMoney, 2, 2), <<"Credit">>)
    /\ Blank
    /\ NoCatalog

NextFlag ==
    \/ \E p \in {"This week", "Last week"}, uf \in UserOptions :
          ReportsTab(p, uf, DefaultPicks)
    \/ \E p \in {"This week", "Last week"}, uf \in UserOptions :
          RunReport(p, uf, DefaultPicks)
    \/ MyDailyTracker(DefaultPicks)
    \/ EditServices("All", DefaultPicks)

SpecFlag == InitFlag /\ [][NextFlag]_vars

\* C24: a script run that comes back to Reports from another tab leaves
\* run_report False and displays no report, "Run report" pressed before
\* or not.
C24_ResetOnTabSwitch ==
    [][ (tab \notin {"Reports", None} /\ tab' = "Reports")
        => /\ ~ session_state'["app"]["run_report"]
           /\ view' = "none" ]_vars

\* the part of C24 that holds: until "Run report" is pressed for the first
\* time the Reports page displays no report
C24_NoReportBeforePress ==
    (tab = "Reports" /\ ~ session_state["app"]["run_report"]) => view = "none"

-----------------------------------------------------------------------------
(* Signing in and out, and the pages of the administrators.                *)

\* what the pages of app.py render
PageVars ==
    <<tab, period, user_filter, start, end, start_utc, end_utc, rows, view,
      df, sums, user_summary, raw_services, grp_user, by_type, totals, csv>>

\* a script run that renders no report: the page `name` of app.py, or a tab
\* without a report of the catalog variants, after the form `form`
PlainPage(name, form) ==
    /\ submitted' = form
    /\ IF program = "app"
       THEN /\ tab' = name
            /\ user_filter' = None
            /\ raw_services' = << >>
            /\ NoReport
            /\ UNCHANGED catalog_report
       ELSE /\ catalog_report' = NoCatalogReport
            /\ UNCHANGED PageVars

\* a pressed button with no amount input, its messages and its outcome
Pressed(button, errors, saved) ==
    [ button |-> button, amount |-> NoText, tip |-> NoText,
      served |-> NotPicked, errors |-> errors, saved |-> saved ]

\* the script run after a sign in of `user`: app.py shows My Daily Tracker,
\* the catalog variants their first tab, and every tab body of theirs runs
\* (Reports for the administrators of app_v3)
Landing(user) ==
    IF program = "app"
    THEN TrackerPage(user, DefaultPicks)
    ELSE /\ PlainPage("Log Services", NoForm)
         /\ session_state' =
               [session_state EXCEPT ![program] =
                   IF program = "app_v2"
                   THEN SetDefault(@, "run_report", FALSE)
                   ELSE IF user.role = "admin"
                        THEN ReportsSession(@, FALSE) ELSE @]
         /\ UNCHANGED <<program, now, proc_tz, users, service_logs, services,
                        catalog_logs>>

\* the login succeeds: the checks of login() of app.py and app_v3, and of
\* the login form of app_v2, which signs in every existing user
LoginSucceeds(username, password) ==
    \E u \in DOMAIN users :
        /\ users[u].username = username
        /\ program # "app_v2" =>
              /\ users[u].is_active
              /\ bcrypt_verify(password, users[u].password_hash)

\* the message of st.error of a login attempt
LoginErrors(username, password) ==
    LET recs == {u \in DOMAIN users : users[u].username = username}
        u == CHOOSE x \in recs : TRUE
    IN  IF recs = {} THEN {"Invalid username or password"}
        ELSE IF program # "app_v2" /\ ~ users[u].is_active
             THEN {"Account disabled"}
        ELSE IF ~ bcrypt_verify(password, users[u].password_hash)
             THEN {"Invalid username or password"}
        ELSE {}

\* a press of "Login" / "Sign in" with a username and a password; of the
\* user's row the session keeps id, username and role
Login(username, password) ==
    /\ auth_user = NoUser
    /\ IF LoginSucceeds(username, password)
       THEN LET user == SessionOf(UserIdOf(username, DOMAIN users))
            IN  /\ auth_user' = user
                /\ cookies' = IF program = "app_v2" THEN user.id ELSE cookies
                /\ Landing(user)
       ELSE /\ auth_user' = NoUser
            /\ PlainPage("Login",
                         Pressed("Login", LoginErrors(username, password),
                                 FALSE))
            /\ UNCHANGED <<program, now, proc_tz, users, service_logs,
                           services, catalog_logs, cookies, session_state>>

\* a press of "Logout" / "Sign out"
Logout ==
    /\ auth_user # NoUser
    /\ auth_user' = NoUser
    /\ cookies' = IF program = "app_v2" THEN "" ELSE cookies
    /\ PlainPage("Login", NoForm)
    /\ UNCHANGED <<program, now, proc_tz, users, service_logs, services,
                   catalog_logs, session_state>>

\* the page is loaded in a new browser session: st.session_state is new;
\* app_v2 signs in the user of the cookie user_id
Reload ==
    LET fresh == [session_state EXCEPT ![program] = NoKeys]
    IN  IF program = "app_v2" /\ cookies \notin {None, ""}
           /\ cookies \in DOMAIN users
        THEN /\ auth_user' = SessionOf(cookies)
             /\ PlainPage("Log Services", NoForm)
             /\ session_state' =
                   [fresh EXCEPT ![program] =
                       SetDefault(@, "run_report", FALSE)]
             /\ UNCHANGED <<program, now, proc_tz, users, service_logs,
                            services, catalog_logs, cookies>>
        ELSE /\ auth_user' = NoUser
             /\ PlainPage("Login", NoForm)
             /\ session_state' = fresh
             /\ UNCHANGED <<program, now, proc_tz, users, service_logs,
                            services, catalog_logs, cookies>>

\* the id the store gives to a new user
NewUserId == CHOOSE u \in {"u1", "u2", "u3"} : u \notin DOMAIN users

\* "Add user" of app.py and app_v3, a press of "Create user"; app_v3 leaves
\* the percentage to the default of the column
CreateUser(nuser, npass, nrole, npercent) ==
    /\ is_admin
    /\ program \in {"app", "app_v3"}
    /\ \A u \in DOMAIN users : users[u].username # nuser
    /\ DOMAIN users # {"u1", "u2", "u3"}
    /\ users' =
          [u \in DOMAIN users \cup {NewUserId} |->
              IF u \in DOMAIN users THEN users[u]
              ELSE [id |-> u, username |-> nuser, role |-> nrole,
                    is_active |-> TRUE, service_percentage |-> npercent,
                    password_hash |-> bcrypt_hash(npass)]]
    /\ PlainPage("Users Management", Pressed("Create user", {}, TRUE))
    /\ UNCHANGED <<program, now, proc_tz, auth_user, service_logs, services,
                   catalog_logs, cookies, session_state>>

\* "Delete user" of app.py and app_v3: the user and the user's logs go
DeleteUser(del_user) ==
    /\ is_admin
    /\ program \in {"app", "app_v3"}
    /\ \E u \in DOMAIN users : users[u].username = del_user
    /\ LET gone == UserIdOf(del_user, DOMAIN users)
       IN  /\ users' = [u \in DOMAIN users \ {gone} |-> users[u]]
           /\ service_logs' = {r \in service_logs : r.user_id # gone}
           /\ catalog_logs' = {r \in catalog_logs : r.user_id # gone}
    /\ PlainPage("Users Management", Pressed("Delete user", {}, TRUE))
    /\ UNCHANGED <<program, now, proc_tz, auth_user, services, cookies,
                   session_state>>

\* Data Admin of app_v3, a press of "Update password"
UpdatePassword(target_user, new_pass) ==
    /\ is_admin
    /\ program = "app_v3"
    /\ \E u \in DOMAIN users : users[u].username = target_user
    /\ users' = [u \in DOMAIN users |->
                    IF users[u].username = target_user
                    THEN [users[u] EXCEPT
                             !.password_hash = bcrypt_hash(new_pass)]
                    ELSE users[u]]
    /\ PlainPage("Data Admin", Pressed("Update password", {}, TRUE))
    /\ UNCHANGED <<program, now, proc_tz, auth_user, service_logs, services,
                   catalog_logs, cookies, session_state>>

\* Data Admin of app_v3, a press of "Delete record" for a picked log
DeleteRecord(id) ==
    /\ is_admin
    /\ program = "app_v3"
    /\ \E r \in catalog_logs : r.id = id
    /\ catalog_logs' = {r \in catalog_logs : r.id # id}
    /\ PlainPage("Data Admin", Pressed("Delete record", {}, TRUE))
    /\ UNCHANGED <<program, now, proc_tz, auth_user, users, service_logs,
                   services, cookies, session_state>>

-----------------------------------------------------------------------------
(* SpecSession: users sign in and out of one of the three programs and use *)
(* its pages; bob may be an inactive user.                                 *)

LoginNames == {"alice", "bob", "mallory"}
LoginPasswords == {"alice-pw", "bob-pw"}

InitSession ==
    /\ now = NowWednesday
    /\ proc_tz = "UTC"
    /\ users \in {UsersWith(50, 100), Deactivated(UsersWith(50, 100), "u2")}
    /\ auth_user = NoUser
    /\ program \in {"app", "app_v2", "app_v3"}
    /\ IF program = "app"
       THEN /\ service_logs \in
                  Ledgers(1, <<"u1", "u2">>, <<MondayMorning>>,
                          SubSeq(CalcMoney, 2, 2), <<"Credit">>)
            /\ services = {}
            /\ catalog_logs = {}
       ELSE /\ service_logs = {}
            /\ services = Catalog
            /\ catalog_logs \in CatalogLedgers(1)
    /\ catalog_report = NoCatalogReport
    /\ cookies = None
    /\ NothingRendered

NextSession ==
    \/ \E username \in LoginNames, password \in LoginPasswords :
          Login(username, password)
    \/ Logout
    \/ Reload
    \/ program = "app" /\ MyDailyTracker(DefaultPicks)
    \/ program = "app" /\ ReportsTab("This week", "All", DefaultPicks)
    \/ program = "app" /\ RunReport("This week", "All", DefaultPicks)
    \/ program = "app" /\ UpdateUser("bob", 50)
    \/ program = "app" /\
          \E service_id \in 1 .. MaxLogs :
             UpdateService("All", DefaultPicks, service_id, Money(20, 0), 0,
                           "Cash", NotPicked)
    \/ program = "app" /\
          \E service_id \in 1 .. MaxLogs :
             DeleteService("All", DefaultPicks, service_id)
    \/ CreateUser("carol", "carol-pw", "user", 100)
    \/ DeleteUser("bob")
    \/ UpdatePassword("bob", "alice-pw")
    \/ \E id \in 1 .. MaxLogs : DeleteRecord(id)
    \/ program = "app_v3" /\ CatalogTracker(CatalogDefaultPicks)
    \/ program # "app" /\
          CatalogReports(program, "Active only", "This week", "All", "All",
                         CatalogDefaultPicks)

SpecSession == InitSession /\ [][NextSession]_vars

\* the password is the one of the account named username
Verified(username, password) ==
    \E u \in DOMAIN users :
        /\ users[u].username = username
        /\ bcrypt_verify(password, users[u].password_hash)

\* C25: in each program a session user is set only by a login attempt
\* whose username names an account and whose password verifies against
\* its stored hash; after an attempt with a wrong password the session
\* holds no user.
C25_LoginVerified ==
    [][ /\ \A username \in LoginNames, password \in LoginPasswords :
              (Login(username, password) /\ ~ Verified(username, password))
                => auth_user' = NoUser
        /\ (auth_user' # NoUser /\ auth_user' # auth_user)
              => \E username \in LoginNames, password \in LoginPasswords :
                    /\ Login(username, password)
                    /\ Verified(username, password) ]_vars

\* the part of C25 that holds: what C25 says of app.py and app_v3
C25_VerifiedButV2 ==
    [][ program # "app_v2" =>
        /\ \A username \in LoginNames, password \in LoginPasswords :
              (Login(username, password) /\ ~ Verified(username, password))
                => auth_user' = NoUser
        /\ (auth_user' # NoUser /\ auth_user' # auth_user)
              => \E username \in LoginNames, password \in LoginPasswords :
                    /\ Login(username, password)
                    /\ Verified(username, password) ]_vars

\* a step that is an operation of the administrators of app.py or app_v3:
\* a user is created, updated or deleted, a service log is edited or
\* deleted, or the report over the users is run
AdminOperation ==
    /\ program \in {"app", "app_v3"}
    /\ \/ users' # users
       \/ \E r \in service_logs : r \notin service_logs'
       \/ \E r \in catalog_logs : r \notin catalog_logs'
       \/ program = "app" /\ tab' = "Reports"
       \/ /\ program = "app_v3"
          /\ catalog_report'.page = "Reports"
          /\ catalog_report' # catalog_report

-----------------------------------------------------------------------------
(* Log Services of app.py: the messages and the store (SpecStore).         *)

\* C27: a press of "Save entry" that reports a validation error leaves the
\* store as it is, and a press that inserts an entry reports no error.
C27_ErrorsInsertNothing ==
    [][ submitted'.button = "Save entry" =>
        /\ submitted'.errors # {} => service_logs' = service_logs
        /\ service_logs' # service_logs => submitted'.errors = {} ]_vars

\* the part of C27 that holds: a press that reports an error of the amount,
\* or a tip below zero, leaves the store as it is
C27_AmountErrors ==
    [][ ( /\ submitted'.button = "Save entry"
          /\ submitted'.errors \ {"Tip must be a number."} # {} )
        => service_logs' = service_logs ]_vars

-----------------------------------------------------------------------------
(* Edit Services of app.py: the picker (SpecStore).                        *)

\* C28: the picker of Edit Services offers one option for each log listed,
\* also when two logs have the same user, minute, amount and tip; "Update
\* Service" and "Delete Service" change the picked log and no other.
C28_EveryLogPickable ==
    tab = "Edit Services" =>
        OptionsOf(raw_services) = {raw_services[i].id : i \in DOMAIN raw_services}

\* the part of C28 that holds: the two buttons leave every log but the
\* picked one as it is
C28_OthersUnchanged ==
    [][ submitted'.button \in {"Update Service", "Delete Service"} =>
        /\ Cardinality(service_logs \ service_logs') <= 1
        /\ \A r \in service_logs' \ service_logs :
              \E q \in service_logs \ service_logs' : q.id = r.id ]_vars

\* the part of C28 that holds: logs with different labels have an option
\* each
C28_DistinctLabels ==
    ( /\ tab = "Edit Services"
      /\ \A i, j \in DOMAIN raw_services :
            i # j => Label(raw_services[i]) # Label(raw_services[j]) )
    => OptionsOf(raw_services) = {raw_services[i].id : i \in DOMAIN raw_services}

====
